---------------------------- MODULE Spec2Model ----------------------------
(***************************************************************************)
(* A model of the MCPM agent backend (src/mcp_backend.py), its legacy      *)
(* variant (src/local_directory_memory_mcp_refactored.py), the GUI peer    *)
(* (src/gui_main_pro.py) that cooperates with it through two files of the  *)
(* sandbox, and the HTTP wrapper (src/server.py) that starts and stops it. *)
(*                                                                         *)
(*   SpecSanitize  the path guard _sanitize, applied to client paths       *)
(*   Spec          the edit pipeline: the tools write_file and edit_file,  *)
(*                 the approval-monitor loop, and the GUI's approve/reject *)
(*   SpecMonitor   the approval-monitor loop under fair scheduling         *)
(*   SpecBackup    the writers of an existing file and their backups       *)
(*   SpecCalls     call_tool as its caller sees it                         *)
(*   SpecMemory    MemoryStore on an empty backing document                *)
(*   SpecStore     MemoryStore on any backing document, writable or not    *)
(*   SpecLLM       LLMBackend.query and the llm_query tool                 *)
(*   SpecStartup   FGDMCPServer.__init__ and run                           *)
(*   SpecRefactoredStore  the MemoryStore of the legacy variant            *)
(*   SpecWatcher   the change-watcher, one event at a time                 *)
(*   SpecRace      the store written by the observer's thread and by the   *)
(*                 event loop at once                                      *)
(*   SpecShutdown  the ways a running server ends                          *)
(*   SpecFeedback  the watcher fed by the backend's own writes             *)
(*   SpecRoundTrip a store rebuilt on the document of a previous store     *)
(*   SpecWrapper   /api/start and /api/stop of the HTTP wrapper            *)
(***************************************************************************)
EXTENDS Integers, Sequences, FiniteSets, TLC

VARIABLES
    sanImpl,      \* which _sanitize ran last: "none", "mcp_backend", "refactored"
    sanReq,       \* the client-supplied path it was given
    sanRes,       \* what it did: [ok |-> TRUE, path |-> ...] or a raised ValueError
    fs,           \* the files of the sandbox root: absolute path -> file
    context,      \* MemoryStore.context
    mon,          \* the approval-monitor task: its position and its locals
    gui,          \* FGDGUI.pending_edit
    clock,        \* datetime.now(), as a logical clock: it ticks with every tool call
    ret,          \* what the last call_tool gave its caller
    proposed,     \* history: the edits for which edit_file wrote a PendingEdit
    decided,      \* history: the decisions written while their edit was pending
    memories,     \* MemoryStore.memories: category -> key -> entry
    config,       \* the configuration and the environment the server was built from
    requests,     \* history: the HTTP requests LLMBackend.query sent, with their time
    memory_file,  \* the backing document of MemoryStore
    server,       \* FGDMCPServer: how far its construction got, and its tasks
    readonly,     \* the paths of the sandbox whose write_text raises OSError
    recent_changes, \* FGDMCPServer.recent_changes
    threads,      \* the calls in progress on the store, and the observer's event queue
    RUN           \* the HTTP wrapper: its RUN dict, its handlers in progress, its servers

storeVars == <<memories, config, requests, memory_file, server, readonly,
               recent_changes, threads, RUN>>
sanVars  == <<proposed, decided, sanImpl, sanReq, sanRes, server, readonly,
              recent_changes, threads, RUN>>
editVars == <<fs, context, mon, gui, clock, ret, proposed, decided>>
vars     == <<sanImpl, sanReq, sanRes, fs, context, mon, gui, clock, ret, proposed,
              decided, memories, config, requests, memory_file, server, readonly,
              recent_changes, threads, RUN>>

(***************************************************************************)
(* Bounds of the model.                                                    *)
(***************************************************************************)
MaxPathLen == 3    \* components of a client-supplied path
MaxClock   == 3    \* tool calls in one run (each reads the clock once)

\* A server whose constructor returned and whose run() started the approval
\* monitor; every file of its sandbox can be written.
Serving == [state |-> "running", observer |-> TRUE, approval_task |-> TRUE]

(***************************************************************************)
(* Sequences.                                                              *)
(***************************************************************************)
IsPrefix(p, s) == Len(p) <= Len(s) /\ SubSeq(s, 1, Len(p)) = p

Front(s) == SubSeq(s, 1, Len(s) - 1)

Last(s) == s[Len(s)]

SeqsUpTo(S, n) == UNION {[1..k -> S] : k \in 0..n}

(***************************************************************************)
(* File names and their spelling.  A name is kept as a string; whatever    *)
(* the code does to the characters of a name (str.startswith, with_suffix) *)
(* is done on its spelling.                                                *)
(***************************************************************************)
PENDING_NAME  == ".fgd_pending_edit.json"
APPROVAL_NAME == ".fgd_approval.json"

Spelling ==
    [n \in {"..", ".", "sb", "sb2", "etc", "link", "a.txt", "a.py", "a.bak",
            PENDING_NAME, ".fgd_pending_edit.bak",
            APPROVAL_NAME, ".fgd_approval.bak"} |->
        CASE n = ".."     -> <<".", ".">>
          [] n = "."      -> <<".">>
          [] n = "sb"     -> <<"s", "b">>
          [] n = "sb2"    -> <<"s", "b", "2">>
          [] n = "etc"    -> <<"e", "t", "c">>
          [] n = "link"   -> <<"l", "i", "n", "k">>
          [] n = "a.txt"  -> <<"a", ".", "t", "x", "t">>
          [] n = "a.py"   -> <<"a", ".", "p", "y">>
          [] n = "a.bak"  -> <<"a", ".", "b", "a", "k">>
          [] n = PENDING_NAME ->
                <<".", "f", "g", "d", "_", "p", "e", "n", "d", "i", "n", "g",
                  "_", "e", "d", "i", "t", ".", "j", "s", "o", "n">>
          [] n = ".fgd_pending_edit.bak" ->
                <<".", "f", "g", "d", "_", "p", "e", "n", "d", "i", "n", "g",
                  "_", "e", "d", "i", "t", ".", "b", "a", "k">>
          [] n = APPROVAL_NAME ->
                <<".", "f", "g", "d", "_", "a", "p", "p", "r", "o", "v", "a",
                  "l", ".", "j", "s", "o", "n">>
          [] n = ".fgd_approval.bak" ->
                <<".", "f", "g", "d", "_", "a", "p", "p", "r", "o", "v", "a",
                  "l", ".", "b", "a", "k">>]

Names == DOMAIN Spelling

NameOf(chars) == CHOOSE n \in Names : Spelling[n] = chars

(***************************************************************************)
(* Paths.  A client-supplied path is [abs, comps]; a resolved path is the  *)
(* sequence of its components below the filesystem root.                   *)
(***************************************************************************)
watch_dir == <<"sb">>

Rel(comps) == [abs |-> FALSE, comps |-> comps]

Abs(comps) == [abs |-> TRUE, comps |-> comps]

\* str(Path): "/" for the root, else "/c1/c2/...".
RECURSIVE PathStr(_)
PathStr(p) ==
    IF p = <<>> THEN <<"/">>
    ELSE IF Len(p) = 1 THEN <<"/">> \o Spelling[p[1]]
    ELSE PathStr(Front(p)) \o <<"/">> \o Spelling[Last(p)]

\* The one symbolic link of the modelled filesystem: <sandbox>/link -> /etc.
IsLink(p) == p = <<"sb", "link">>

ReadLink(p) == <<"etc">>

\* Path.resolve(strict=False): "." dropped, ".." pops the resolved prefix,
\* a symbolic link is replaced by its (absolute) target.
RECURSIVE Walk(_, _)
Walk(cur, comps) ==
    IF comps = <<>> THEN cur
    ELSE LET c == Head(comps) IN
         IF c = "." THEN Walk(cur, Tail(comps))
         ELSE IF c = ".." THEN Walk(IF cur = <<>> THEN cur ELSE Front(cur), Tail(comps))
         ELSE IF IsLink(Append(cur, c)) THEN Walk(ReadLink(Append(cur, c)), Tail(comps))
         ELSE Walk(Append(cur, c), Tail(comps))

Resolve(p) == Walk(<<>>, p)

\* base / rel: an absolute right operand replaces the left one.
Join(base, rel) == IF rel.abs THEN rel.comps ELSE base \o rel.comps

Raised(msg) == [ok |-> FALSE, error |-> msg]

Returned(p) == [ok |-> TRUE, path |-> p]

\* FGDMCPServer._sanitize of mcp_backend.py.
Sanitize(rel) ==
    LET p == Resolve(Join(watch_dir, rel)) IN
    IF ~IsPrefix(PathStr(watch_dir), PathStr(p))
    THEN Raised("Path traversal blocked")
    ELSE Returned(p)

\* os.path.normpath: lexical; a leading ".." of a relative path is kept.
RECURSIVE Norm(_, _, _)
Norm(abs, out, comps) ==
    IF comps = <<>> THEN out
    ELSE LET c == Head(comps) IN
         IF c = "." THEN Norm(abs, out, Tail(comps))
         ELSE IF c = ".." THEN
              IF out # <<>> /\ Last(out) # ".." THEN Norm(abs, Front(out), Tail(comps))
              ELSE IF abs THEN Norm(abs, out, Tail(comps))
              ELSE Norm(abs, Append(out, ".."), Tail(comps))
         ELSE Norm(abs, Append(out, c), Tail(comps))

normpath(rel) == [abs |-> rel.abs, comps |-> Norm(rel.abs, <<>>, rel.comps)]

\* str of a normalized client path: "." when nothing is left of a relative one.
RelStr(rel) ==
    IF rel.abs THEN PathStr(rel.comps)
    ELSE IF rel.comps = <<>> THEN <<".">>
    ELSE Tail(PathStr(rel.comps))

\* FGDMCPServer._sanitize of local_directory_memory_mcp_refactored.py.
SanitizeRefactored(rel) ==
    LET norm == normpath(rel) IN
    IF IsPrefix(<<".", ".">>, RelStr(norm)) \/ norm.abs
    THEN Raised("Invalid path")
    ELSE Returned(watch_dir \o norm.comps)

(***************************************************************************)
(* Text.  A file's content, old_text and new_text are sequences of         *)
(* characters.                                                             *)
(***************************************************************************)
PREVIEW_CHARS == 500

Occurs(old, s, i) ==
    /\ i + Len(old) - 1 <= Len(s)
    /\ SubSeq(s, i, i + Len(old) - 1) = old

\* A weaker containment test that only compares lengths; C9 does not survive it.
ContainsByLength(old, s) == Len(old) <= Len(s)

\* old in s
Contains(old, s) == \E i \in 1..(Len(s) + 1) : Occurs(old, s, i)

Occurrences(old, s) == {i \in 1..(Len(s) + 1) : Occurs(old, s, i)}

FirstIndex(old, s) ==
    CHOOSE i \in Occurrences(old, s) : \A j \in Occurrences(old, s) : i <= j

\* s.replace(old, new): every occurrence, left to right, without overlap.
RECURSIVE ReplaceAll(_, _, _)
ReplaceAll(s, old, new) ==
    IF old = <<>> \/ Occurrences(old, s) = {} THEN s
    ELSE LET i == FirstIndex(old, s) IN
         SubSeq(s, 1, i - 1) \o new
            \o ReplaceAll(SubSeq(s, i + Len(old), Len(s)), old, new)

\* s.replace(old, new, 1)
ReplaceFirst(s, old, new) ==
    IF Occurrences(old, s) = {} THEN s
    ELSE LET i == FirstIndex(old, s) IN
         SubSeq(s, 1, i - 1) \o new \o SubSeq(s, i + Len(old), Len(s))

\* s[:n]
Take(s, n) == SubSeq(s, 1, IF Len(s) < n THEN Len(s) ELSE n)

\* s[-n:]
TakeLast(s, n) ==
    IF n > 0
    THEN SubSeq(s, IF Len(s) < n THEN 1 ELSE Len(s) - n + 1, Len(s))
    ELSE SubSeq(s, 1 - n, Len(s))

(***************************************************************************)
(* Files.  A file is absent, holds text, or holds the JSON serialization   *)
(* of a document (kept as the document).                                   *)
(***************************************************************************)
Absent == [kind |-> "absent"]

Text(c) == [kind |-> "text", content |-> c]

Json(d) == [kind |-> "json", doc |-> d]

None == [none |-> TRUE]

SandboxNames ==
    {"a.txt", "a.py", "a.bak", PENDING_NAME, APPROVAL_NAME, ".fgd_approval.bak"}

FsPaths == {watch_dir \o <<n>> : n \in SandboxNames}

pending_edit_file == watch_dir \o <<PENDING_NAME>>

approval_file == watch_dir \o <<APPROVAL_NAME>>

Exists(p) == p \in DOMAIN fs /\ fs[p] # Absent

\* PurePath.suffix: the last dot of the name, unless it starts or ends the name.
SuffixAt(chars) ==
    LET dots == {i \in 1..Len(chars) : chars[i] = "."}
        last == IF dots = {} THEN 0 ELSE CHOOSE i \in dots : \A j \in dots : j <= i
    IN IF 1 < last /\ last < Len(chars) THEN last ELSE Len(chars) + 1

\* A backup path that is the path itself; C12 does not survive it.
with_same_suffix(p) == p

\* path.with_suffix('.bak')
with_suffix_bak(p) ==
    LET chars == Spelling[Last(p)] IN
    Front(p) \o <<NameOf(SubSeq(chars, 1, SuffixAt(chars) - 1) \o <<".", "b", "a", "k">>)>>

(***************************************************************************)
(* MemoryStore.add_context.  An entry's timestamp is never read back and   *)
(* is left out.                                                            *)
(***************************************************************************)
DEFAULT_CONTEXT_LIMIT == 20

add_context(ctx, limit, entry) ==
    LET appended == Append(ctx, entry) IN
    IF Len(appended) > limit THEN TakeLast(appended, limit) ELSE appended

(***************************************************************************)
(* The inputs of the edit pipeline.                                        *)
(***************************************************************************)
FOO_BAR_FOO == <<"x", "y", "x">>

\* One character more than a preview holds.
LongText == [i \in 1..(PREVIEW_CHARS + 1) |-> IF i = 1 THEN "x" ELSE "y"]

UserPaths == {Rel(<<"a.txt">>), Rel(<<"a.py">>)}

EscapingPath == Rel(<<"..", "etc", "a.txt">>)

OldTexts == {<<"x">>}

NewTexts == {<<"z">>}

\* Decisions as FGDGUI.approve_edit and FGDGUI.reject_edit write them (their
\* timestamp is never read and is left out).
Approval(filepath, old_text, new_text) ==
    [approved |-> TRUE, filepath |-> filepath,
     old_text |-> old_text, new_text |-> new_text]

Rejection(filepath) ==
    [approved |-> FALSE, filepath |-> filepath, reason |-> "Rejected by user"]

\* What a client may hand to write_file: (filepath, content).
WriteInputs ==
    {<<Rel(<<"a.py">>), Text(LongText)>>,
     <<Rel(<<"a.txt">>), Text(<<"y">>)>>,
     <<Rel(<<APPROVAL_NAME>>), Json(Approval(Rel(<<"a.txt">>), <<"x">>, <<"z">>))>>,
     <<Rel(<<APPROVAL_NAME>>), Json(Approval(EscapingPath, <<"x">>, <<"z">>))>>,
     <<Rel(<<APPROVAL_NAME>>), Json(Rejection(Rel(<<"a.txt">>)))>>,
     <<Rel(<<APPROVAL_NAME>>), Text(<<"y">>)>>}

(***************************************************************************)
(* call_tool.  A tool call runs on the event loop, so only while the       *)
(* approval monitor is suspended in its sleep (or has ended).              *)
(***************************************************************************)
LoopFree == mon.pc \in {"sleep", "dead"}

Response(tool, text, preview) == [tool |-> tool, text |-> text, preview |-> preview]

NoPreview == <<>>

\* History: decision d is recorded when, at the time it is written, the
\* pending-edit file holds the edit that d decides.
Decide(d) ==
    IF /\ Exists(pending_edit_file)
       /\ fs[pending_edit_file].kind = "json"
       /\ fs[pending_edit_file].doc.filepath = d.filepath
       /\ d.approved => /\ fs[pending_edit_file].doc.old_text = d.old_text
                        /\ fs[pending_edit_file].doc.new_text = d.new_text
    THEN decided \cup {d}
    ELSE decided

\* path.write_text(...) raises OSError on a path that cannot be written.
writable(path) == path \notin readonly

\* The target written first and copied to its backup afterwards; C30 does not
\* survive it.
write_then_backup(files, path, backup, new_content) ==
    IF ~writable(path) THEN files
    ELSE [files EXCEPT ![path] = new_content, ![backup] = new_content]

\* shutil.copy2(path, backup), then path.write_text(new_content): a write that
\* raises leaves the copy behind and the target as it was.
backup_then_write(files, path, backup, new_content) ==
    LET copied == [files EXCEPT ![backup] = files[path]] IN
    IF ~writable(path) THEN copied
    ELSE [copied EXCEPT ![path] = new_content]

\* call_tool, name == "write_file"
write_file(filepath, content) ==
    /\ LoopFree
    /\ clock < MaxClock
    /\ clock' = clock + 1
    /\ LET s == Sanitize(filepath) IN
       IF ~s.ok
       THEN /\ ret' = Response("write_file", "raised ValueError", NoPreview)
            /\ UNCHANGED <<fs, context, decided>>
       ELSE LET path   == s.path
                backup == with_suffix_bak(path)
            IN IF Exists(path) /\ backup = path
               THEN \* shutil.copy2 raises SameFileError
                    /\ ret' = Response("write_file", "Error", NoPreview)
                    /\ UNCHANGED <<fs, context, decided>>
               ELSE /\ fs' = IF Exists(path)
                             THEN backup_then_write(fs, path, backup, content)
                             ELSE IF writable(path)
                             THEN [fs EXCEPT ![path] = content]
                             ELSE fs
                    /\ context' =
                         LET backed == IF Exists(path)
                                       THEN add_context(context, DEFAULT_CONTEXT_LIMIT,
                                              [type |-> "backup", path |-> backup,
                                               original |-> filepath])
                                       ELSE context
                         IN IF writable(path)
                            THEN add_context(backed, DEFAULT_CONTEXT_LIMIT,
                                             [type |-> "file_write", path |-> filepath])
                            ELSE backed
                    /\ ret' = IF writable(path)
                              THEN Response("write_file", "Written", NoPreview)
                              ELSE Response("write_file", "Error", NoPreview)
                    /\ decided' = IF /\ path = approval_file
                                     /\ content.kind = "json"
                                     /\ writable(path)
                                  THEN Decide(content.doc)
                                  ELSE decided
    /\ UNCHANGED <<mon, gui, proposed, sanImpl, sanReq, sanRes, storeVars>>

Edit(filepath, old_text, new_text) ==
    [filepath |-> filepath, old_text |-> old_text, new_text |-> new_text]

\* The PendingEdit record of call_tool's edit_file branch.
PendingEdit(filepath, old_text, new_text, content, now) ==
    [filepath  |-> filepath,
     old_text  |-> old_text,
     new_text  |-> new_text,
     diff      |-> <<"-", " ">> \o old_text \o <<"\n", "+", " ">> \o new_text,
     preview   |-> Take(ReplaceFirst(content, old_text, new_text), PREVIEW_CHARS),
     timestamp |-> now]

\* A store that keeps the record already pending; C11 does not survive it.
save_pending_edit_unless_pending(files, payload) ==
    IF files[pending_edit_file] # Absent THEN files
    ELSE [files EXCEPT ![pending_edit_file] = Json(payload)]

\* FGDMCPServer._save_pending_edit: write_text replaces the file's content.
save_pending_edit(files, payload) ==
    [files EXCEPT ![pending_edit_file] = Json(payload)]

\* call_tool, name == "edit_file"
edit_file(filepath, old_text, new_text, confirm) ==
    /\ LoopFree
    /\ clock < MaxClock
    /\ clock' = clock + 1
    /\ LET s == Sanitize(filepath) IN
       IF ~s.ok
       THEN /\ ret' = Response("edit_file", "raised ValueError", NoPreview)
            /\ UNCHANGED <<fs, context, proposed>>
       ELSE IF ~Exists(s.path)
       THEN /\ ret' = Response("edit_file", "File not found", NoPreview)
            /\ UNCHANGED <<fs, context, proposed>>
       ELSE LET path    == s.path
                content == fs[path].content
                backup  == with_suffix_bak(path)
            IN IF ~Contains(old_text, content)
               THEN /\ ret' = Response("edit_file", "Old text not found", NoPreview)
                    /\ UNCHANGED <<fs, context, proposed>>
               ELSE IF ~confirm
               THEN /\ LET data == PendingEdit(filepath, old_text, new_text, content, clock')
                       IN /\ fs' = save_pending_edit(fs, data)
                          /\ ret' = Response("edit_file", "confirm_edit", data.preview)
                    /\ proposed' = proposed \cup {Edit(filepath, old_text, new_text)}
                    /\ UNCHANGED context
               ELSE IF backup = path
               THEN \* shutil.copy2 raises SameFileError
                    /\ ret' = Response("edit_file", "Error", NoPreview)
                    /\ UNCHANGED <<fs, context, proposed>>
               ELSE /\ fs' = LET files == backup_then_write(fs, path, backup,
                                            Text(ReplaceFirst(content, old_text, new_text)))
                             IN IF writable(path)
                                THEN [files EXCEPT ![pending_edit_file] = Absent]
                                ELSE files
                    /\ context' =
                         IF writable(path)
                         THEN add_context(context, DEFAULT_CONTEXT_LIMIT,
                                     [type |-> "file_edit", path |-> filepath,
                                      approved |-> TRUE])
                         ELSE context
                    /\ ret' = IF writable(path)
                              THEN Response("edit_file", "Approved", NoPreview)
                              ELSE Response("edit_file", "Error", NoPreview)
                    /\ UNCHANGED proposed
    /\ UNCHANGED <<mon, gui, decided, sanImpl, sanReq, sanRes, storeVars>>

(***************************************************************************)
(* FGDMCPServer._approval_monitor_loop.  The loop runs in the backend; the *)
(* GUI is another process, so its steps may fall between the loop's file   *)
(* operations.  mon.pc: "sleep" (in asyncio.sleep), "apply" (an approved   *)
(* decision was read), "unlink" (about to delete the approval file),       *)
(* "dead" (an exception ended the loop).                                   *)
(***************************************************************************)
Sleeping == [pc |-> "sleep", approval_data |-> None]

Dead == [pc |-> "dead", approval_data |-> None]

HasKeys(doc, keys) == keys \subseteq DOMAIN doc

\* Wake up, test approval_file.exists(), json.loads(approval_file.read_text()),
\* and read the keys of an approved decision.
MonitorRead ==
    /\ mon.pc = "sleep"
    /\ IF ~Exists(approval_file)
       THEN mon' = mon
       ELSE IF fs[approval_file].kind # "json"
       THEN mon' = Dead
       ELSE LET approval_data == fs[approval_file].doc IN
            IF approval_data.approved
            THEN IF HasKeys(approval_data, {"filepath", "old_text", "new_text"})
                 THEN mon' = [pc |-> "apply", approval_data |-> approval_data]
                 ELSE mon' = Dead
            ELSE mon' = [pc |-> "unlink", approval_data |-> approval_data]
    /\ UNCHANGED <<fs, context, gui, clock, ret, proposed, decided, sanImpl, sanReq, sanRes, storeVars>>

\* The inner try block: whatever it raises is logged and the loop goes on.
MonitorApply ==
    /\ mon.pc = "apply"
    /\ LET filepath == mon.approval_data.filepath
           old_text == mon.approval_data.old_text
           new_text == mon.approval_data.new_text
           s        == Sanitize(filepath)
       IN IF ~s.ok \/ ~Exists(s.path)
          THEN UNCHANGED <<fs, context>>
          ELSE LET path        == s.path
                   content     == fs[path].content
                   new_content == ReplaceFirst(content, old_text, new_text)
                   backup      == with_suffix_bak(path)
               IN IF backup = path
                  THEN UNCHANGED <<fs, context>>
                  ELSE /\ fs' = backup_then_write(fs, path, backup, Text(new_content))
                       /\ context' =
                            IF writable(path)
                            THEN add_context(context, DEFAULT_CONTEXT_LIMIT,
                                        [type |-> "file_edit", path |-> filepath,
                                         approved |-> TRUE, auto_applied |-> TRUE])
                            ELSE context
    /\ mon' = [mon EXCEPT !.pc = "unlink"]
    /\ UNCHANGED <<gui, clock, ret, proposed, decided, sanImpl, sanReq, sanRes, storeVars>>

\* approval_file.unlink(), then back to asyncio.sleep.  approval_data is
\* assigned again before it is next read.
MonitorUnlink ==
    /\ mon.pc = "unlink"
    /\ IF Exists(approval_file)
       THEN /\ fs' = [fs EXCEPT ![approval_file] = Absent]
            /\ mon' = Sleeping
       ELSE /\ fs' = fs
            /\ mon' = Dead
    /\ UNCHANGED <<context, gui, clock, ret, proposed, decided, sanImpl, sanReq, sanRes, storeVars>>

(***************************************************************************)
(* The GUI (gui_main_pro.py), polling the pending-edit file on a timer and *)
(* writing the approval file when the user decides.                        *)
(***************************************************************************)
\* FGDGUI.check_pending_edits
check_pending_edits ==
    /\ Exists(pending_edit_file)
    /\ fs[pending_edit_file].kind = "json"
    /\ LET pending_data == fs[pending_edit_file].doc IN
       IF gui.pending_edit # None /\ gui.pending_edit.timestamp = pending_data.timestamp
       THEN gui' = gui
       ELSE gui' = [gui EXCEPT !.pending_edit = pending_data]
    /\ UNCHANGED <<fs, context, mon, clock, ret, proposed, decided, sanImpl, sanReq, sanRes, storeVars>>

\* FGDGUI.approve_edit
approve_edit ==
    /\ gui.pending_edit # None
    /\ fs' = [fs EXCEPT
                ![approval_file] = Json(Approval(gui.pending_edit.filepath,
                                                 gui.pending_edit.old_text,
                                                 gui.pending_edit.new_text)),
                ![pending_edit_file] = Absent]
    /\ gui' = [gui EXCEPT !.pending_edit = None]
    /\ decided' = Decide(Approval(gui.pending_edit.filepath,
                                  gui.pending_edit.old_text,
                                  gui.pending_edit.new_text))
    /\ UNCHANGED <<context, mon, clock, ret, proposed, sanImpl, sanReq, sanRes, storeVars>>

\* FGDGUI.reject_edit
reject_edit ==
    /\ gui.pending_edit # None
    /\ fs' = [fs EXCEPT
                ![approval_file] = Json(Rejection(gui.pending_edit.filepath)),
                ![pending_edit_file] = Absent]
    /\ gui' = [gui EXCEPT !.pending_edit = None]
    /\ decided' = Decide(Rejection(gui.pending_edit.filepath))
    /\ UNCHANGED <<context, mon, clock, ret, proposed, sanImpl, sanReq, sanRes, storeVars>>

(***************************************************************************)
(* Spec: the edit pipeline.                                                *)
(***************************************************************************)
Init ==
    /\ fs = [p \in FsPaths |->
                IF p = watch_dir \o <<"a.txt">> THEN Text(FOO_BAR_FOO) ELSE Absent]
    /\ context = <<>>
    /\ mon = Sleeping
    /\ gui = [pending_edit |-> None]
    /\ clock = 0
    /\ ret = Response("none", "", NoPreview)
    /\ proposed = {}
    /\ decided = {}
    /\ sanImpl = "none"
    /\ sanReq = Rel(<<>>)
    /\ sanRes = Returned(watch_dir)
    /\ recent_changes = <<>>
    /\ threads = <<>>
    /\ RUN = <<>>
    /\ memories = <<>>
    /\ config = <<>>
    /\ requests = <<>>
    /\ memory_file = <<>>
    /\ server = Serving
    /\ readonly = {}

ToolCall ==
    \/ \E w \in WriteInputs : write_file(w[1], w[2])
    \/ \E filepath \in UserPaths, old_text \in OldTexts, new_text \in NewTexts,
          confirm \in BOOLEAN :
          edit_file(filepath, old_text, new_text, confirm)

Next ==
    \/ ToolCall
    \/ MonitorRead
    \/ MonitorApply
    \/ MonitorUnlink
    \/ check_pending_edits
    \/ approve_edit
    \/ reject_edit

Spec == Init /\ [][Next]_vars

(***************************************************************************)
(* SpecMonitor: the approval-monitor loop alone, fed with decision files   *)
(* of every content.  The event loop wakes the monitor every 2 seconds, so *)
(* each of its steps is taken when it stays possible.                      *)
(***************************************************************************)
\* What may be found in the approval file: text that is not JSON, an approval
\* without its keys, approvals of a path that leaves the sandbox, of a missing
\* file and of an existing file, and a rejection.
DecisionFiles ==
    {Text(<<"{">>),
     Json([approved |-> TRUE]),
     Json(Approval(EscapingPath, <<"x">>, <<"z">>)),
     Json(Approval(Rel(<<"a.py">>), <<"x">>, <<"z">>)),
     Json(Approval(Rel(<<"a.txt">>), <<"x">>, <<"z">>)),
     Json(Rejection(Rel(<<"a.txt">>)))}

MonitorNext ==
    \/ \E content \in DecisionFiles : write_file(Rel(<<APPROVAL_NAME>>), content)
    \/ MonitorRead
    \/ MonitorApply
    \/ MonitorUnlink

SpecMonitor ==
    /\ Init
    /\ [][MonitorNext]_vars
    /\ WF_vars(MonitorRead)
    /\ WF_vars(MonitorApply)
    /\ WF_vars(MonitorUnlink)

(***************************************************************************)
(* SpecBackup: the three writers of an existing file (write_file, a        *)
(* confirmed edit_file, the monitor applying an approval), in a sandbox    *)
(* whose target can or cannot be written.                                  *)
(***************************************************************************)
BackupWrites ==
    {<<Rel(<<"a.txt">>), Text(<<"y">>)>>,
     <<Rel(<<"a.txt">>), Text(<<"x", "x">>)>>,
     <<Rel(<<"a.bak">>), Text(<<"y">>)>>,
     <<Rel(<<APPROVAL_NAME>>), Json(Approval(Rel(<<"a.txt">>), <<"x">>, <<"z">>))>>}

BackupInit ==
    /\ fs = [p \in FsPaths |->
                IF p = watch_dir \o <<"a.txt">> THEN Text(FOO_BAR_FOO) ELSE Absent]
    /\ readonly \in {{}, {watch_dir \o <<"a.txt">>}}
    /\ context = <<>>
    /\ mon = Sleeping
    /\ gui = [pending_edit |-> None]
    /\ clock = 0
    /\ ret = Response("none", "", NoPreview)
    /\ proposed = {}
    /\ decided = {}
    /\ sanImpl = "none"
    /\ sanReq = Rel(<<>>)
    /\ sanRes = Returned(watch_dir)
    /\ recent_changes = <<>>
    /\ threads = <<>>
    /\ RUN = <<>>
    /\ memories = <<>>
    /\ config = <<>>
    /\ requests = <<>>
    /\ memory_file = <<>>
    /\ server = Serving

BackupNext ==
    \/ \E w \in BackupWrites : write_file(w[1], w[2])
    \/ \E old_text \in {<<"x">>, <<"y">>}, new_text \in NewTexts :
          edit_file(Rel(<<"a.txt">>), old_text, new_text, TRUE)
    \/ MonitorRead
    \/ MonitorApply
    \/ MonitorUnlink

SpecBackup == BackupInit /\ [][BackupNext]_vars

(***************************************************************************)
(* SpecCalls: call_tool as its caller sees it, over tool names and path    *)
(* arguments.  File sizes, .gitignore patterns and the git tools are left  *)
(* out; llm_query is in SpecLLM.                                           *)
(***************************************************************************)
is_dir(p) == p = watch_dir

\* call_tool, name == "list_directory": _sanitize is called outside any try.
list_directory(rel_path) ==
    /\ LoopFree
    /\ clock < MaxClock
    /\ clock' = clock + 1
    /\ LET s == Sanitize(rel_path) IN
       ret' = IF ~s.ok THEN Response("list_directory", "raised ValueError", NoPreview)
              ELSE IF ~is_dir(s.path)
                   THEN Response("list_directory", "Error: Not a directory", NoPreview)
                   ELSE Response("list_directory", "files", NoPreview)
    /\ UNCHANGED <<fs, context, mon, gui, proposed, decided,
                   sanImpl, sanReq, sanRes, storeVars>>

\* call_tool, name == "read_file": the whole branch is inside try/except.
read_file(filepath) ==
    /\ LoopFree
    /\ clock < MaxClock
    /\ clock' = clock + 1
    /\ LET s == Sanitize(filepath) IN
       IF ~s.ok \/ ~Exists(s.path) \/ fs[s.path].kind # "text"
       THEN /\ ret' = Response("read_file", "Error", NoPreview)
            /\ UNCHANGED context
       ELSE /\ context' = add_context(context, DEFAULT_CONTEXT_LIMIT,
                             [type |-> "file_read", path |-> filepath])
            /\ ret' = Response("read_file", "content", fs[s.path].content)
    /\ UNCHANGED <<fs, mon, gui, proposed, decided,
                   sanImpl, sanReq, sanRes, storeVars>>

\* call_tool, the final else: raise ValueError(f"Unknown tool: {name}")
unknown_tool(name) ==
    /\ LoopFree
    /\ clock < MaxClock
    /\ clock' = clock + 1
    /\ ret' = Response(name, "raised ValueError", NoPreview)
    /\ UNCHANGED <<fs, context, mon, gui, proposed, decided,
                   sanImpl, sanReq, sanRes, storeVars>>

FilePaths == UserPaths \cup {EscapingPath}

DirPaths == {Rel(<<".">>), Rel(<<"a.txt">>), EscapingPath}

UnknownTools == {"no_such_tool"}

CallsNext ==
    \/ \E rel_path \in DirPaths : list_directory(rel_path)
    \/ \E filepath \in FilePaths : read_file(filepath)
    \/ \E filepath \in FilePaths : write_file(filepath, Text(<<"y">>))
    \/ \E filepath \in FilePaths, confirm \in BOOLEAN :
          edit_file(filepath, <<"x">>, <<"z">>, confirm)
    \/ \E name \in UnknownTools : unknown_tool(name)

SpecCalls == Init /\ [][CallsNext]_vars

(***************************************************************************)
(* SpecMemory: MemoryStore.  memories is the dict of dicts category -> key *)
(* -> entry; an entry's timestamp is left out.  A None argument is NoArg.  *)
(* Every operation that mutates the store ends with _save, which rewrites  *)
(* the backing document.                                                   *)
(***************************************************************************)
MaxLimit == 2

ContextLimits == 0..MaxLimit

Keys == {"", "k1", "k2"}

Categories == {"general", "llm"}

Values == {"v1", "v2"}

EmptyDict == <<>>

\* None, where a str is expected
NoArg == "<None>"

\* bool(x) of a str or None
Truthy(x) == x # NoArg /\ x # ""

\* d[k] = v on a dict
Put(d, k, v) == [x \in DOMAIN d \cup {k} |-> IF x = k THEN v ELSE d[x]]

\* self.watch_dir / ".fgd_memory.json"
memory_path == watch_dir \o <<".fgd_memory.json">>

\* A JSON list, decoded.
JsonList == [json_list |-> <<"x">>]

\* isinstance(v, dict)
is_dict(v) == "json_list" \notin DOMAIN v

\* A file whose read_text raises.
Unreadable == [kind |-> "unreadable"]

\* MemoryStore._load: a document with a 'memories' key is taken as it is, any
\* other JSON value is taken as the memories of the old format, and whatever
\* raises gives the empty store.
load(file) ==
    IF file.kind = "absent" THEN [memories |-> EmptyDict, context |-> <<>>]
    ELSE IF file.kind # "json" THEN [memories |-> EmptyDict, context |-> <<>>]
    ELSE IF is_dict(file.doc) /\ "memories" \in DOMAIN file.doc THEN file.doc
    ELSE [memories |-> file.doc, context |-> <<>>]

\* MemoryStore.__init__: self.memories and self.context
MemoryStore_init(file) ==
    LET loaded_data == load(file) IN
    [memories |-> loaded_data.memories,
     context  |-> IF "context" \in DOMAIN loaded_data THEN loaded_data.context
                  ELSE <<>>]

\* MemoryStore._save: the document written to memory_file
save(m, ctx) == Json([memories |-> m, context |-> ctx])

\* self.memory_file.write_text(document): the file afterwards, and what it raised
write_text(file, document) ==
    IF memory_path \in readonly THEN [file |-> file, error |-> "OSError"]
    ELSE [file |-> document, error |-> ""]

\* A _save that lets the error of the write through; C27 does not survive it.
save_unguarded(written) == written

\* MemoryStore._save, its try/except: the error is logged and dropped.
try_save(written) == [written EXCEPT !.error = ""]

\* self.memories after MemoryStore.remember(key, value, category)
remembered(m, key, value, category) ==
    LET m1 == IF category \in DOMAIN m THEN m ELSE Put(m, category, EmptyDict)
    IN Put(m1, category, Put(m1[category], key,
                             [value |-> value, access_count |-> 0]))

\* MemoryStore.recall, the condition of its first branch
recall_hit(m, key, category) ==
    /\ Truthy(key)
    /\ Truthy(category)
    /\ category \in DOMAIN m
    /\ key \in DOMAIN m[category]

\* A recall that counts an access on every entry of the category; C16 does
\* not survive it.
touched_category(m, key, category) ==
    Put(m, category,
        [k \in DOMAIN m[category] |->
            [m[category][k] EXCEPT !.access_count = @ + 1]])

\* self.memories[category][key]["access_count"] += 1
touched(m, key, category) ==
    Put(m, category,
        Put(m[category], key,
            [m[category][key] EXCEPT !.access_count = @ + 1]))

\* MemoryStore.remember.  On memories that are not a dict,
\* self.memories[category] = {} raises TypeError.
remember(key, value, category) ==
    /\ clock < MaxClock
    /\ clock' = clock + 1
    /\ IF ~is_dict(memories)
       THEN /\ UNCHANGED <<memories, memory_file>>
            /\ ret' = [tool |-> "remember", key |-> key, category |-> category,
                       result |-> EmptyDict, error |-> "TypeError"]
       ELSE LET m == remembered(memories, key, value, category)
                w == try_save(write_text(memory_file, save(m, context)))
            IN /\ memories' = m
               /\ memory_file' = w.file
               /\ ret' = [tool |-> "remember", key |-> key, category |-> category,
                          result |-> EmptyDict, error |-> w.error]
    /\ UNCHANGED <<context, config, requests, fs, mon, gui, proposed, decided,
                   sanImpl, sanReq, sanRes, server, readonly, recent_changes, threads, RUN>>

\* MemoryStore.recall.  On memories that are not a dict, self.memories.get
\* raises AttributeError.
recall(key, category) ==
    /\ clock < MaxClock
    /\ clock' = clock + 1
    /\ IF ~is_dict(memories) /\ Truthy(category)
       THEN /\ UNCHANGED <<memories, memory_file>>
            /\ ret' = [tool |-> "recall", key |-> key, category |-> category,
                       result |-> EmptyDict, error |-> "AttributeError"]
       ELSE IF recall_hit(memories, key, category)
       THEN LET m == touched(memories, key, category)
                w == try_save(write_text(memory_file, save(m, context)))
            IN /\ memories' = m
               /\ memory_file' = w.file
               /\ ret' = [tool |-> "recall", key |-> key, category |-> category,
                          result |-> Put(EmptyDict, key, m[category][key]),
                          error |-> w.error]
       ELSE /\ UNCHANGED <<memories, memory_file>>
            /\ ret' = [tool |-> "recall", key |-> key, category |-> category,
                       result |-> IF Truthy(category)
                                  THEN IF category \in DOMAIN memories
                                       THEN memories[category] ELSE EmptyDict
                                  ELSE memories,
                       error |-> ""]
    /\ UNCHANGED <<context, config, requests, fs, mon, gui, proposed, decided,
                   sanImpl, sanReq, sanRes, server, readonly, recent_changes, threads, RUN>>

\* MemoryStore.add_context; the entry's timestamp is the clock.
MemoryStore_add_context(type_, data) ==
    /\ clock < MaxClock
    /\ clock' = clock + 1
    /\ LET ctx == add_context(context, config.context_limit,
                              [type |-> type_, data |-> data, timestamp |-> clock'])
           w   == try_save(write_text(memory_file, save(memories, ctx)))
       IN /\ context' = ctx
          /\ memory_file' = w.file
          /\ ret' = [tool |-> "add_context", key |-> NoArg, category |-> NoArg,
                     result |-> EmptyDict, error |-> w.error]
    /\ UNCHANGED <<memories, config, requests, fs, mon, gui, proposed, decided,
                   sanImpl, sanReq, sanRes, server, readonly, recent_changes, threads, RUN>>

\* MemoryStore.get_context
get_context ==
    /\ clock < MaxClock
    /\ clock' = clock + 1
    /\ ret' = [tool |-> "get_context", key |-> NoArg, category |-> NoArg,
               result |-> context, error |-> ""]
    /\ UNCHANGED <<context, memories, memory_file, config, requests, fs, mon, gui,
                   proposed, decided, sanImpl, sanReq, sanRes, server, readonly, recent_changes, threads, RUN>>

\* MemoryStore.__init__ with no backing document yet, for each context_limit.
MemInit ==
    /\ config \in {[context_limit |-> l] : l \in ContextLimits}
    /\ memories = EmptyDict
    /\ context = <<>>
    /\ memory_file = Absent
    /\ server = Serving
    /\ readonly = {}
    /\ clock = 0
    /\ ret = [tool |-> "none", key |-> NoArg, category |-> NoArg, result |-> EmptyDict,
              error |-> ""]
    /\ requests = <<>>
    /\ fs = <<>>
    /\ mon = <<>>
    /\ gui = <<>>
    /\ proposed = {}
    /\ decided = {}
    /\ sanImpl = "none"
    /\ sanReq = Rel(<<>>)
    /\ sanRes = Returned(watch_dir)
    /\ recent_changes = <<>>
    /\ threads = <<>>
    /\ RUN = <<>>

MemNext ==
    \/ \E key \in Keys, value \in Values, category \in Categories :
          remember(key, value, category)
    \/ \E key \in Keys \cup {NoArg}, category \in Categories \cup {NoArg} :
          recall(key, category)
    \/ MemoryStore_add_context("file_read", "d")
    \/ get_context

SpecMemory == MemInit /\ [][MemNext]_vars

(***************************************************************************)
(* SpecStore: MemoryStore built on a backing document that is already      *)
(* there, well-formed or not, in a sandbox where the document can or       *)
(* cannot be written.                                                      *)
(***************************************************************************)
StoredEntry == [value |-> "v1", access_count |-> 0]

\* The document as _save writes it, and the old format: the memories alone.
WellFormedDocuments ==
    {Json([memories |-> [general |-> [k1 |-> StoredEntry]], context |-> <<>>]),
     Json([general |-> [k1 |-> StoredEntry]])}

BackingDocuments ==
    {Absent, Unreadable, Text(<<"{">>), Json(JsonList)} \cup WellFormedDocuments

StoreInit ==
    /\ memory_file \in BackingDocuments
    /\ readonly \in {{}, {memory_path}}
    /\ config = [context_limit |-> DEFAULT_CONTEXT_LIMIT]
    /\ memories = MemoryStore_init(memory_file).memories
    /\ context = MemoryStore_init(memory_file).context
    /\ server = Serving
    /\ clock = 0
    /\ ret = [tool |-> "none", key |-> NoArg, category |-> NoArg, result |-> EmptyDict,
              error |-> ""]
    /\ requests = <<>>
    /\ fs = <<>>
    /\ mon = <<>>
    /\ gui = <<>>
    /\ proposed = {}
    /\ decided = {}
    /\ sanImpl = "none"
    /\ sanReq = Rel(<<>>)
    /\ sanRes = Returned(watch_dir)
    /\ recent_changes = <<>>
    /\ threads = <<>>
    /\ RUN = <<>>

SpecStore == StoreInit /\ [][MemNext]_vars


(***************************************************************************)
(* SpecRefactoredStore: the MemoryStore of                                 *)
(* src/local_directory_memory_mcp_refactored.py.  Its document is the      *)
(* memories mapping alone, and its context lives in memory only.           *)
(***************************************************************************)
\* MemoryStore._load of the refactored server: the decoded document, or {}
load_refactored(file) ==
    IF file.kind = "json" THEN file.doc ELSE EmptyDict

\* MemoryStore._save of the refactored server: json.dumps(self.memories)
save_refactored(m) == Json(m)

\* MemoryStore.remember of the refactored server
remember_refactored(key, value, category) ==
    /\ clock < MaxClock
    /\ clock' = clock + 1
    /\ IF ~is_dict(memories)
       THEN /\ UNCHANGED <<memories, memory_file>>
            /\ ret' = [tool |-> "remember", key |-> key, category |-> category,
                       result |-> EmptyDict, error |-> "TypeError"]
       ELSE LET m == remembered(memories, key, value, category)
                w == try_save(write_text(memory_file, save_refactored(m)))
            IN /\ memories' = m
               /\ memory_file' = w.file
               /\ ret' = [tool |-> "remember", key |-> key, category |-> category,
                          result |-> EmptyDict, error |-> w.error]
    /\ UNCHANGED <<context, config, requests, fs, mon, gui, proposed, decided,
                   sanImpl, sanReq, sanRes, server, readonly, recent_changes, threads, RUN>>

\* MemoryStore.recall of the refactored server
recall_refactored(key, category) ==
    /\ clock < MaxClock
    /\ clock' = clock + 1
    /\ IF ~is_dict(memories) /\ Truthy(category)
       THEN /\ UNCHANGED <<memories, memory_file>>
            /\ ret' = [tool |-> "recall", key |-> key, category |-> category,
                       result |-> EmptyDict, error |-> "AttributeError"]
       ELSE IF recall_hit(memories, key, category)
       THEN LET m == touched(memories, key, category)
                w == try_save(write_text(memory_file, save_refactored(m)))
            IN /\ memories' = m
               /\ memory_file' = w.file
               /\ ret' = [tool |-> "recall", key |-> key, category |-> category,
                          result |-> Put(EmptyDict, key, m[category][key]),
                          error |-> w.error]
       ELSE /\ UNCHANGED <<memories, memory_file>>
            /\ ret' = [tool |-> "recall", key |-> key, category |-> category,
                       result |-> IF Truthy(category)
                                  THEN IF category \in DOMAIN memories
                                       THEN memories[category] ELSE EmptyDict
                                  ELSE memories,
                       error |-> ""]
    /\ UNCHANGED <<context, config, requests, fs, mon, gui, proposed, decided,
                   sanImpl, sanReq, sanRes, server, readonly, recent_changes, threads, RUN>>

\* MemoryStore.add_context of the refactored server: no _save follows.
add_context_refactored(type_, data) ==
    /\ clock < MaxClock
    /\ clock' = clock + 1
    /\ context' = add_context(context, config.context_limit,
                              [type |-> type_, data |-> data, timestamp |-> clock'])
    /\ ret' = [tool |-> "add_context", key |-> NoArg, category |-> NoArg,
               result |-> EmptyDict, error |-> ""]
    /\ UNCHANGED <<memories, memory_file, config, requests, fs, mon, gui, proposed,
                   decided, sanImpl, sanReq, sanRes, server, readonly, recent_changes, threads, RUN>>

\* MemoryStore.__init__ of the refactored server, on no document or on one it
\* wrote earlier.
RefactoredInit ==
    /\ memory_file \in {Absent, Json([general |-> [k1 |-> StoredEntry]])}
    /\ readonly = {}
    /\ config \in {[context_limit |-> l] : l \in 1..MaxLimit}
    /\ memories = load_refactored(memory_file)
    /\ context = <<>>
    /\ server = Serving
    /\ clock = 0
    /\ ret = [tool |-> "none", key |-> NoArg, category |-> NoArg, result |-> EmptyDict,
              error |-> ""]
    /\ requests = <<>>
    /\ fs = <<>>
    /\ mon = <<>>
    /\ gui = <<>>
    /\ proposed = {}
    /\ decided = {}
    /\ sanImpl = "none"
    /\ sanReq = Rel(<<>>)
    /\ sanRes = Returned(watch_dir)
    /\ recent_changes = <<>>
    /\ threads = <<>>
    /\ RUN = <<>>

RefactoredNext ==
    \/ \E key \in Keys, value \in Values, category \in Categories :
          remember_refactored(key, value, category)
    \/ \E key \in Keys \cup {NoArg}, category \in Categories \cup {NoArg} :
          recall_refactored(key, category)
    \/ add_context_refactored("file_read", "d")
    \/ get_context

SpecRefactoredStore == RefactoredInit /\ [][RefactoredNext]_vars


(***************************************************************************)
(* SpecWatcher: the change-watcher.  The observer's thread hands every     *)
(* event under the sandbox root to FileChangeHandler, which passes the     *)
(* events of files on to FGDMCPServer._on_file_change.  The run starts     *)
(* after a number of earlier changes, so that the ring is empty, one short *)
(* of full, or full.                                                       *)
(***************************************************************************)
RECENT_CHANGES_LIMIT == 50

EventTypes == {"created", "modified", "deleted"}

\* event.src_path: two files under the sandbox root, a file of a sibling
\* directory whose name starts like the root's, and a file elsewhere.
EventPaths ==
    {watch_dir \o <<"a.txt">>, watch_dir \o <<"sub", "a.txt">>,
     <<"sb2", "a.txt">>, <<"etc", "passwd">>}

\* Path(path).relative_to(base): by components, ValueError when base is not a
\* leading part of path
relative_to(path, base) ==
    IF IsPrefix(base, path)
    THEN Returned(SubSeq(path, Len(base) + 1, Len(path)))
    ELSE Raised("ValueError")

\* A ring that keeps its oldest entries; C32 does not survive it.
keep_oldest(changes) == Take(changes, RECENT_CHANGES_LIMIT)

\* if len(self.recent_changes) > 50: self.recent_changes = self.recent_changes[-50:]
keep_newest(changes) ==
    IF Len(changes) > RECENT_CHANGES_LIMIT
    THEN TakeLast(changes, RECENT_CHANGES_LIMIT)
    ELSE changes

Change(event_type, rel, now) ==
    [type |-> event_type, path |-> rel, timestamp |-> now]

FileChange(event_type, rel, now) ==
    [type |-> "file_change", data |-> [type |-> event_type, path |-> rel],
     timestamp |-> now]

\* FGDMCPServer._on_file_change
on_file_change(event_type, path) ==
    LET rel == relative_to(path, watch_dir) IN
    IF ~rel.ok
    THEN /\ UNCHANGED <<recent_changes, context, memory_file>>
         /\ ret' = [tool |-> "_on_file_change", key |-> NoArg, category |-> NoArg,
                    result |-> EmptyDict, error |-> ""]
    ELSE LET ctx == add_context(context, config.context_limit,
                                FileChange(event_type, rel.path, clock'))
             w   == try_save(write_text(memory_file, save(memories, ctx)))
         IN /\ recent_changes' =
                   keep_newest(Append(recent_changes,
                                      Change(event_type, rel.path, clock')))
            /\ context' = ctx
            /\ memory_file' = w.file
            /\ ret' = [tool |-> "_on_file_change", key |-> NoArg,
                       category |-> NoArg, result |-> EmptyDict, error |-> w.error]

\* FileChangeHandler.on_created / on_modified / on_deleted, called on the
\* observer's thread
FileChangeHandler(event_type, src_path, is_directory) ==
    /\ server.observer
    /\ clock < MaxClock
    /\ clock' = clock + 1
    /\ IF is_directory
       THEN /\ UNCHANGED <<recent_changes, context, memory_file>>
            /\ ret' = [tool |-> "on_" \o event_type, key |-> NoArg,
                       category |-> NoArg, result |-> EmptyDict, error |-> ""]
       ELSE on_file_change(event_type, src_path)
    /\ UNCHANGED <<memories, config, requests, fs, mon, gui, proposed, decided,
                   sanImpl, sanReq, sanRes, server, readonly, threads, RUN>>

\* The changes of a.txt seen before the run: n of them, the last at time 0
Earlier(n) == [i \in 1..n |-> Change("modified", <<"a.txt">>, i - n)]

EarlierContext(n, limit) ==
    LET kept == IF n < limit THEN n ELSE limit
    IN [i \in 1..kept |-> FileChange("modified", <<"a.txt">>, i - kept)]

WatcherInit ==
    /\ config \in {[context_limit |-> l] : l \in 1..MaxLimit}
    /\ \E n \in {0, RECENT_CHANGES_LIMIT - 1, RECENT_CHANGES_LIMIT} :
          /\ recent_changes = Earlier(n)
          /\ context = EarlierContext(n, config.context_limit)
    /\ memories = EmptyDict
    /\ readonly \in {{}, {memory_path}}
    /\ memory_file = IF memory_path \in readonly THEN Absent
                     ELSE save(memories, context)
    /\ server = Serving
    /\ clock = 0
    /\ ret = [tool |-> "none", key |-> NoArg, category |-> NoArg, result |-> EmptyDict,
              error |-> ""]
    /\ requests = <<>>
    /\ fs = <<>>
    /\ mon = <<>>
    /\ gui = <<>>
    /\ proposed = {}
    /\ decided = {}
    /\ sanImpl = "none"
    /\ sanReq = Rel(<<>>)
    /\ sanRes = Returned(watch_dir)
    /\ threads = <<>>
    /\ RUN = <<>>

WatcherNext ==
    \E event_type \in EventTypes, src_path \in EventPaths, is_directory \in BOOLEAN :
        FileChangeHandler(event_type, src_path, is_directory)

SpecWatcher == WatcherInit /\ [][WatcherNext]_vars


(***************************************************************************)
(* SpecRace: one call on the store from the observer's thread              *)
(* (_on_file_change, which ends in add_context) and one from the event     *)
(* loop (add_context of a tool call, or remember), with no lock between    *)
(* them.  A call is a sequence of steps between which the other thread may *)
(* run: the append, the read of the slice, the store of the slice, the     *)
(* json.dumps of _save, and its write_text.                                *)
(***************************************************************************)
ThreadNames == {"observer", "loop"}

Thread(pc, call, entry, kept, document) ==
    [pc |-> pc, call |-> call, entry |-> entry, kept |-> kept,
     document |-> document]

NoEntry == [type |-> "none", data |-> [path |-> <<>>], timestamp |-> 0]

Idle == Thread("idle", "none", NoEntry, <<>>, Absent)

\* The entry a read_file tool call adds
FileRead(now) ==
    [type |-> "file_read", data |-> [path |-> <<"a.txt">>], timestamp |-> now]

At(t, pc) == [threads EXCEPT ![t].pc = pc]

\* self.context.append(...), the first statement of add_context; on the
\* observer's thread _on_file_change has appended to recent_changes before.
AppendStep(t, entry) ==
    /\ threads[t].pc = "idle"
    /\ clock < MaxClock
    /\ clock' = clock + 1
    /\ LET e == [entry EXCEPT !.timestamp = clock'] IN
       /\ context' = Append(context, e)
       /\ threads' = [threads EXCEPT ![t] = Thread("truncate", "add_context", e,
                                                    <<>>, Absent)]
       /\ recent_changes' =
             IF t = "observer"
             THEN keep_newest(Append(recent_changes,
                                     Change(e.data.type, e.data.path, clock')))
             ELSE recent_changes
    /\ UNCHANGED <<memories, memory_file, ret, config, requests, fs, mon, gui,
                   proposed, decided, sanImpl, sanReq, sanRes, server, readonly, RUN>>

\* if len(self.context) > self.limit: ... self.context[-self.limit:], the
\* slice read into a new list
SliceStep(t) ==
    /\ threads[t].pc = "truncate"
    /\ threads' = IF Len(context) > config.context_limit
                  THEN [threads EXCEPT
                           ![t].pc = "store",
                           ![t].kept = TakeLast(context, config.context_limit)]
                  ELSE At(t, "dumps")
    /\ UNCHANGED <<context, memories, memory_file, recent_changes, clock, ret,
                   config, requests, fs, mon, gui, proposed, decided, sanImpl,
                   sanReq, sanRes, server, readonly, RUN>>

\* self.context = <the slice>
StoreStep(t) ==
    /\ threads[t].pc = "store"
    /\ context' = threads[t].kept
    /\ threads' = At(t, "dumps")
    /\ UNCHANGED <<memories, memory_file, recent_changes, clock, ret, config,
                   requests, fs, mon, gui, proposed, decided, sanImpl, sanReq,
                   sanRes, server, readonly, RUN>>

\* MemoryStore.remember up to its _save, on the event loop
RememberStep(key, value, category) ==
    /\ threads["loop"].pc = "idle"
    /\ clock < MaxClock
    /\ clock' = clock + 1
    /\ memories' = remembered(memories, key, value, category)
    /\ threads' = [threads EXCEPT !["loop"] = Thread("dumps", "remember", NoEntry,
                                                      <<>>, Absent)]
    /\ UNCHANGED <<context, memory_file, recent_changes, ret, config, requests,
                   fs, mon, gui, proposed, decided, sanImpl, sanReq, sanRes,
                   server, readonly, RUN>>

\* _save: json.dumps({"memories": self.memories, "context": self.context})
DumpsStep(t) ==
    /\ threads[t].pc = "dumps"
    /\ threads' = [threads EXCEPT ![t].pc = "write",
                                  ![t].document = save(memories, context)]
    /\ UNCHANGED <<context, memories, memory_file, recent_changes, clock, ret,
                   config, requests, fs, mon, gui, proposed, decided, sanImpl,
                   sanReq, sanRes, server, readonly, RUN>>

\* _save: self.memory_file.write_text(<the dumped text>)
WriteStep(t) ==
    /\ threads[t].pc = "write"
    /\ memory_file' = try_save(write_text(memory_file, threads[t].document)).file
    /\ threads' = At(t, "done")
    /\ UNCHANGED <<context, memories, recent_changes, clock, ret, config, requests,
                   fs, mon, gui, proposed, decided, sanImpl, sanReq, sanRes,
                   server, readonly, RUN>>

\* A store that was persisted before the two calls began, with a context
\* that is empty or full.
RaceInit ==
    /\ config \in {[context_limit |-> l] : l \in 1..MaxLimit}
    /\ \E n \in {0, MaxLimit} :
          context = EarlierContext(n, config.context_limit)
    /\ recent_changes = <<>>
    /\ memories = EmptyDict
    /\ readonly = {}
    /\ memory_file = save(memories, context)
    /\ threads = [t \in ThreadNames |-> Idle]
    /\ server = Serving
    /\ clock = 0
    /\ ret = [tool |-> "none", key |-> NoArg, category |-> NoArg, result |-> EmptyDict,
              error |-> ""]
    /\ requests = <<>>
    /\ fs = <<>>
    /\ mon = <<>>
    /\ gui = <<>>
    /\ proposed = {}
    /\ decided = {}
    /\ sanImpl = "none"
    /\ sanReq = Rel(<<>>)
    /\ sanRes = Returned(watch_dir)
    /\ RUN = <<>>

RaceNext ==
    \/ \E event_type \in EventTypes :
          AppendStep("observer", FileChange(event_type, <<"a.txt">>, 0))
    \/ AppendStep("loop", FileRead(0))
    \/ RememberStep("k1", "v1", "general")
    \/ \E t \in ThreadNames : SliceStep(t)
    \/ \E t \in ThreadNames : StoreStep(t)
    \/ \E t \in ThreadNames : DumpsStep(t)
    \/ \E t \in ThreadNames : WriteStep(t)

SpecRace == RaceInit /\ [][RaceNext]_vars


(***************************************************************************)
(* SpecShutdown: the ways a running server ends.  The server was started   *)
(* by the entry point of mcp_backend.py or by /api/start of server.py;     *)
(* RUN.host tells which.  The approval monitor is a task of the event      *)
(* loop, so run() goes on only while the monitor sleeps; the observer is a *)
(* thread of its own and handles events whenever it is alive.              *)
(***************************************************************************)
Hosts == {"__main__", "server.py"}

Cancelled == [pc |-> "cancelled", approval_data |-> None]

\* run(), its finally block: the approval task is cancelled and awaited,
\* unless it is done already.
run_finally(state) ==
    /\ server.state = "running"
    /\ mon.pc \in {"sleep", "dead"}
    /\ server' = [server EXCEPT !.state = state, !.approval_task = FALSE]
    /\ mon' = IF mon.pc = "dead" THEN mon ELSE Cancelled

\* FGDMCPServer.stop: observer.stop(), observer.join, self.observer = None
stopped(srv) == [srv EXCEPT !.observer = FALSE]

\* The stdio session ends: server.run returns, run() returns through finally.
SessionEnds ==
    /\ run_finally("returned")
    /\ UNCHANGED <<fs, context, gui, clock, ret, proposed, decided, sanImpl, sanReq,
                   sanRes, memories, config, requests, memory_file, readonly,
                   recent_changes, threads, RUN>>

\* An exception leaves run() through 'except Exception: ... raise' and finally.
FatalError ==
    /\ run_finally("crashed")
    /\ UNCHANGED <<fs, context, gui, clock, ret, proposed, decided, sanImpl, sanReq,
                   sanRes, memories, config, requests, memory_file, readonly,
                   recent_changes, threads, RUN>>

\* Ctrl+C under the entry point: run() ends through finally, asyncio.run
\* raises KeyboardInterrupt, and the entry point calls server.stop().
KeyboardInterrupt ==
    /\ RUN.host = "__main__"
    /\ server.state = "running"
    /\ mon.pc \in {"sleep", "dead"}
    /\ server' = stopped([server EXCEPT !.state = "interrupted",
                                        !.approval_task = FALSE])
    /\ mon' = IF mon.pc = "dead" THEN mon ELSE Cancelled
    /\ UNCHANGED <<fs, context, gui, clock, ret, proposed, decided, sanImpl, sanReq,
                   sanRes, memories, config, requests, memory_file, readonly,
                   recent_changes, threads, RUN>>

\* /api/stop of server.py: RUN["server"].stop(), then the server task is
\* cancelled and awaited, which takes run() through finally.
api_stop ==
    /\ RUN.host = "server.py"
    /\ server.state = "running"
    /\ mon.pc \in {"sleep", "dead"}
    /\ server' = stopped([server EXCEPT !.state = "stopped",
                                        !.approval_task = FALSE])
    /\ mon' = IF mon.pc = "dead" THEN mon ELSE Cancelled
    /\ UNCHANGED <<fs, context, gui, clock, ret, proposed, decided, sanImpl, sanReq,
                   sanRes, memories, config, requests, memory_file, readonly,
                   recent_changes, threads, RUN>>

\* The entry point has nothing left to run: the process exits and takes the
\* observer, a daemon thread, with it.  The process of server.py lives on.
ProcessExits ==
    /\ RUN.host = "__main__"
    /\ server.state \in {"returned", "crashed", "interrupted"}
    /\ server' = stopped([server EXCEPT !.state = "exited"])
    /\ UNCHANGED <<fs, context, mon, gui, clock, ret, proposed, decided, sanImpl,
                   sanReq, sanRes, memories, config, requests, memory_file,
                   readonly, recent_changes, threads, RUN>>

\* A running server with its sandbox, its persisted store, and possibly an
\* approved edit waiting in the approval file.
ShutdownInit ==
    /\ RUN \in {[host |-> h] : h \in Hosts}
    /\ server = Serving
    /\ mon = Sleeping
    /\ \E decision \in {Absent,
                        Json(Approval(Rel(<<"a.txt">>), <<"x">>, <<"z">>))} :
          fs = [p \in FsPaths |->
                   IF p = watch_dir \o <<"a.txt">> THEN Text(FOO_BAR_FOO)
                   ELSE IF p = approval_file THEN decision
                   ELSE Absent]
    /\ config = [context_limit |-> DEFAULT_CONTEXT_LIMIT]
    /\ memories = EmptyDict
    /\ context = <<>>
    /\ memory_file = save(memories, context)
    /\ readonly = {}
    /\ recent_changes = <<>>
    /\ threads = <<>>
    /\ gui = [pending_edit |-> None]
    /\ clock = 0
    /\ ret = [tool |-> "none", key |-> NoArg, category |-> NoArg, result |-> EmptyDict,
              error |-> ""]
    /\ requests = <<>>
    /\ proposed = {}
    /\ decided = {}
    /\ sanImpl = "none"
    /\ sanReq = Rel(<<>>)
    /\ sanRes = Returned(watch_dir)

ShutdownNext ==
    \/ SessionEnds
    \/ FatalError
    \/ KeyboardInterrupt
    \/ api_stop
    \/ ProcessExits
    \/ MonitorRead
    \/ MonitorApply
    \/ MonitorUnlink
    \/ \E event_type \in EventTypes, src_path \in EventPaths, is_directory \in BOOLEAN :
          FileChangeHandler(event_type, src_path, is_directory)

SpecShutdown == ShutdownInit /\ [][ShutdownNext]_vars


(***************************************************************************)
(* SpecFeedback: the watcher fed by nothing but the backend's own writes.  *)
(* The memory document lies under the sandbox root, which the observer     *)
(* watches recursively, so every write of the document queues a 'modified' *)
(* event for the observer.  No other actor touches the sandbox, and the    *)
(* client makes a bounded number of tool calls.  Time is read modulo       *)
(* ClockPeriod, which keeps the entries of one context apart.              *)
(***************************************************************************)
MaxToolCalls == 2

ClockPeriod == 4

Tick == (clock + 1) % ClockPeriod

\* The event the observer queues when path is written
Modified(path) == [type |-> "modified", src_path |-> path, is_directory |-> FALSE]

\* self.memory_file.write_text under an observer: the file, and the queue of
\* the observer afterwards
observed_write(queue, file, document) ==
    LET w == try_save(write_text(file, document)) IN
    [file  |-> w.file,
     queue |-> IF server.observer /\ memory_path \notin readonly
               THEN Append(queue, Modified(memory_path))
               ELSE queue]

\* call_tool, name == "read_file", on an existing file: the content is
\* returned and add_context("file_read", ...) rewrites the memory document.
read_file_observed ==
    /\ server.state = "running"
    /\ threads.calls < MaxToolCalls
    /\ clock' = Tick
    /\ LET ctx == add_context(context, config.context_limit, FileRead(clock'))
           w   == observed_write(threads.queue, memory_file, save(memories, ctx))
       IN /\ context' = ctx
          /\ memory_file' = w.file
          /\ threads' = [calls |-> threads.calls + 1, queue |-> w.queue]
    /\ ret' = [tool |-> "read_file", key |-> NoArg, category |-> NoArg,
               result |-> EmptyDict, error |-> ""]
    /\ UNCHANGED <<recent_changes, memories, config, requests, fs, mon, gui,
                   proposed, decided, sanImpl, sanReq, sanRes, server, readonly, RUN>>

\* The observer's thread takes the next event of its queue and calls
\* FileChangeHandler with it; the add_context of _on_file_change rewrites the
\* memory document.
Dispatch ==
    /\ server.observer
    /\ threads.queue # <<>>
    /\ clock' = Tick
    /\ LET event == Head(threads.queue)
           rel   == relative_to(event.src_path, watch_dir)
       IN IF event.is_directory \/ ~rel.ok
          THEN /\ UNCHANGED <<recent_changes, context, memory_file>>
               /\ threads' = [threads EXCEPT !.queue = Tail(threads.queue)]
          ELSE LET ctx == add_context(context, config.context_limit,
                                      FileChange(event.type, rel.path, clock'))
                   w   == observed_write(Tail(threads.queue), memory_file,
                                         save(memories, ctx))
               IN /\ recent_changes' =
                        keep_newest(Append(recent_changes,
                                           Change(event.type, rel.path, clock')))
                  /\ context' = ctx
                  /\ memory_file' = w.file
                  /\ threads' = [threads EXCEPT !.queue = w.queue]
    /\ ret' = [tool |-> "_on_file_change", key |-> NoArg, category |-> NoArg,
               result |-> EmptyDict, error |-> ""]
    /\ UNCHANGED <<memories, config, requests, fs, mon, gui, proposed, decided,
                   sanImpl, sanReq, sanRes, server, readonly, RUN>>

\* A server that has just started on a persisted, empty store; the observer
\* started or failed to start.
FeedbackInit ==
    /\ config \in {[context_limit |-> l] : l \in 1..MaxLimit}
    /\ server \in {Serving, [Serving EXCEPT !.observer = FALSE]}
    /\ memories = EmptyDict
    /\ context = <<>>
    /\ memory_file = save(memories, context)
    /\ readonly = {}
    /\ recent_changes = <<>>
    /\ threads = [calls |-> 0, queue |-> <<>>]
    /\ clock = 0
    /\ ret = [tool |-> "none", key |-> NoArg, category |-> NoArg, result |-> EmptyDict,
              error |-> ""]
    /\ requests = <<>>
    /\ fs = <<>>
    /\ mon = <<>>
    /\ gui = <<>>
    /\ proposed = {}
    /\ decided = {}
    /\ sanImpl = "none"
    /\ sanReq = Rel(<<>>)
    /\ sanRes = Returned(watch_dir)
    /\ RUN = <<>>

FeedbackNext ==
    \/ read_file_observed
    \/ Dispatch

\* The observer's thread handles a queued event whenever there is one.
SpecFeedback == FeedbackInit /\ [][FeedbackNext]_vars /\ WF_vars(Dispatch)


(***************************************************************************)
(* SpecRoundTrip: a store, its document, and the store built on that       *)
(* document afterwards.  A sandbox is served first by the refactored       *)
(* server, whose document is the memories alone, or by /api/start of       *)
(* server.py, which creates the document as {}; the server of              *)
(* mcp_backend.py is then built on the document, serves, and is built      *)
(* again.  server.state tells which server holds the store.                *)
(***************************************************************************)
RoundTripCategories == {"general", "memories"}

Refactored == [state |-> "refactored", observer |-> FALSE, approval_task |-> FALSE]

\* FGDMCPServer.__init__, line 233: MemoryStore(self.watch_dir /
\* ".fgd_memory.json", self.config), on the document as it is
Reconstruct ==
    /\ memories' = MemoryStore_init(memory_file).memories
    /\ context' = MemoryStore_init(memory_file).context
    /\ server' = Serving
    /\ ret' = [tool |-> "__init__", key |-> NoArg, category |-> NoArg,
               result |-> EmptyDict, error |-> ""]
    /\ UNCHANGED <<memory_file, clock, config, requests, fs, mon, gui, proposed,
                   decided, sanImpl, sanReq, sanRes, readonly, recent_changes,
                   threads, RUN>>

RoundTripInit ==
    /\ memory_file \in {Absent, Json(EmptyDict)}
    /\ server = Refactored
    /\ memories = load_refactored(memory_file)
    /\ context = <<>>
    /\ config = [context_limit |-> DEFAULT_CONTEXT_LIMIT]
    /\ readonly = {}
    /\ clock = 0
    /\ ret = [tool |-> "none", key |-> NoArg, category |-> NoArg, result |-> EmptyDict,
              error |-> ""]
    /\ requests = <<>>
    /\ fs = <<>>
    /\ mon = <<>>
    /\ gui = <<>>
    /\ proposed = {}
    /\ decided = {}
    /\ sanImpl = "none"
    /\ sanReq = Rel(<<>>)
    /\ sanRes = Returned(watch_dir)
    /\ recent_changes = <<>>
    /\ threads = <<>>
    /\ RUN = <<>>

RoundTripNext ==
    \/ /\ server.state = "refactored"
       /\ \/ \E key \in Keys, value \in Values, category \in RoundTripCategories :
                remember_refactored(key, value, category)
          \/ \E key \in Keys, category \in RoundTripCategories :
                recall_refactored(key, category)
          \/ add_context_refactored("file_read", "d")
    \/ /\ server.state = "running"
       /\ \/ \E key \in Keys, value \in Values, category \in RoundTripCategories :
                remember(key, value, category)
          \/ \E key \in Keys, category \in RoundTripCategories :
                recall(key, category)
          \/ MemoryStore_add_context("file_read", "d")
    \/ Reconstruct

SpecRoundTrip == RoundTripInit /\ [][RoundTripNext]_vars


(***************************************************************************)
(* SpecWrapper: /api/start and /api/stop of server.py, and the tasks of    *)
(* the servers they start.  The handlers run on one event loop: start has  *)
(* no await and is one step; stop suspends at 'await server_task'.         *)
(* Servers are numbered in the order of their start; 0 stands for None.    *)
(* RUN.servers[n].task is the state of server n's task, .observer tells    *)
(* whether its watcher runs, .callback whether its done-callback is still  *)
(* to run.  RUN.stop is the stop handler in progress.                      *)
(***************************************************************************)
MaxServers == 3

ServerIds == 1..MaxServers

NotStarted == [task |-> "none", observer |-> FALSE, callback |-> FALSE]

Started == [task |-> "running", observer |-> TRUE, callback |-> FALSE]

HttpResponse(handler, status) == [tool |-> handler, status |-> status]

\* The number the next server gets
next_server == 1 + Cardinality({n \in ServerIds : RUN.servers[n].task # "none"})

\* /api/start.  FGDMCPServer(...) may raise ValueError, which start answers
\* with 400 before RUN is assigned.
start ==
    /\ next_server \in ServerIds
    /\ IF RUN.server # 0
       THEN /\ ret' = HttpResponse("start", 400)
            /\ RUN' = RUN
       ELSE \E constructed \in BOOLEAN :
               IF ~constructed
               THEN /\ ret' = HttpResponse("start", 400)
                    /\ RUN' = RUN
               ELSE /\ ret' = HttpResponse("start", 200)
                    /\ RUN' = [RUN EXCEPT !.server = next_server,
                                          !.server_task = next_server,
                                          !.servers[next_server] = Started]
    /\ UNCHANGED <<clock, fs, context, mon, gui, proposed, decided, sanImpl,
                   sanReq, sanRes, memories, config, requests, memory_file,
                   server, readonly, recent_changes, threads>>

\* /api/stop up to 'await server_task': the server's watcher is stopped,
\* RUN["server"] is cleared, the task is cancelled.  With no task to await
\* the handler runs to its end.
stop_begin ==
    /\ RUN.stop.pc = "idle"
    /\ IF RUN.server = 0
       THEN /\ ret' = HttpResponse("stop", 400)
            /\ RUN' = RUN
       ELSE LET task    == RUN.server_task
                halted  == [RUN EXCEPT !.servers[RUN.server].observer = FALSE,
                                       !.server = 0]
            IN IF task # 0 /\ RUN.servers[task].task # "done"
               THEN /\ RUN' = [halted EXCEPT !.servers[task].task = "cancelling",
                                             !.stop = [pc |-> "await", task |-> task]]
                    /\ ret' = ret
               ELSE /\ RUN' = [halted EXCEPT !.server_task = 0]
                    /\ ret' = HttpResponse("stop", 200)
    /\ UNCHANGED <<clock, fs, context, mon, gui, proposed, decided, sanImpl,
                   sanReq, sanRes, memories, config, requests, memory_file,
                   server, readonly, recent_changes, threads>>

\* The task of server n ends: cancelled by stop, or because run() returned
\* or raised.  Its done-callbacks are scheduled.
task_done(n) ==
    /\ RUN.servers[n].task \in {"running", "cancelling"}
    /\ RUN' = [RUN EXCEPT !.servers[n].task = "done", !.servers[n].callback = TRUE]
    /\ UNCHANGED <<ret, clock, fs, context, mon, gui, proposed, decided, sanImpl,
                   sanReq, sanRes, memories, config, requests, memory_file,
                   server, readonly, recent_changes, threads>>

\* _log_task_result, the done-callback start gave to the task of server n:
\* its finally clause clears both entries of RUN.
log_task_result(n) ==
    /\ RUN.servers[n].callback
    /\ RUN' = [RUN EXCEPT !.servers[n].callback = FALSE,
                          !.server_task = 0,
                          !.server = 0]
    /\ UNCHANGED <<ret, clock, fs, context, mon, gui, proposed, decided, sanImpl,
                   sanReq, sanRes, memories, config, requests, memory_file,
                   server, readonly, recent_changes, threads>>

\* /api/stop after 'await server_task': the awaited task is done and its
\* done-callback, registered before the await, has run.
stop_resume ==
    /\ RUN.stop.pc = "await"
    /\ RUN.servers[RUN.stop.task].task = "done"
    /\ ~RUN.servers[RUN.stop.task].callback
    /\ RUN' = [RUN EXCEPT !.server_task = 0, !.stop = [pc |-> "idle", task |-> 0]]
    /\ ret' = HttpResponse("stop", 200)
    /\ UNCHANGED <<clock, fs, context, mon, gui, proposed, decided, sanImpl,
                   sanReq, sanRes, memories, config, requests, memory_file,
                   server, readonly, recent_changes, threads>>

\* The module as imported: RUN with no server and no task
WrapperInit ==
    /\ RUN = [server |-> 0, server_task |-> 0,
              servers |-> [n \in ServerIds |-> NotStarted],
              stop |-> [pc |-> "idle", task |-> 0]]
    /\ ret = HttpResponse("none", 0)
    /\ clock = 0
    /\ server = <<>>
    /\ fs = <<>>
    /\ context = <<>>
    /\ mon = <<>>
    /\ gui = <<>>
    /\ proposed = {}
    /\ decided = {}
    /\ sanImpl = "none"
    /\ sanReq = Rel(<<>>)
    /\ sanRes = Returned(watch_dir)
    /\ memories = <<>>
    /\ config = <<>>
    /\ requests = <<>>
    /\ memory_file = <<>>
    /\ readonly = {}
    /\ recent_changes = <<>>
    /\ threads = <<>>

WrapperNext ==
    \/ start
    \/ stop_begin
    \/ stop_resume
    \/ \E n \in ServerIds : task_done(n)
    \/ \E n \in ServerIds : log_task_result(n)

SpecWrapper == WrapperInit /\ [][WrapperNext]_vars

(***************************************************************************)
(* SpecLLM: LLMBackend.query and the llm_query tool, in src/mcp_backend.py *)
(* and in src/local_directory_memory_mcp_refactored.py.  config.providers  *)
(* is the set of configured provider names, config.api_keys the providers  *)
(* whose API-key environment variable is set.  requests records every HTTP *)
(* request that leaves the process.  A text is a tuple of its parts.       *)
(***************************************************************************)
Providers == {"grok", "openai", "mistral"}

Prompts == {"p"}

\* What the provider's endpoint does with a request: a 200 whose message
\* content is a flat string, a 200 whose content is a list of typed segments,
\* a 200 whose body has no choices, a 500, a transport error, a timeout.
Outcomes == {"200", "200 segments", "200 malformed", "500", "ClientError",
             "TimeoutError"}

\* The content of a 200 response, as a list of {type, text} segments.
Segments == <<[type |-> "text", text |-> "Hel"], [type |-> "text", text |-> "lo"]>>

\* What a query gives its caller: whether a request left the process, whether
\* an exception escaped, the Python type of the value returned, and the value:
\* the parts of a str, or the text of each segment of a list of segments.
Reply(sent, raised, text) ==
    [sent |-> sent, raised |-> raised, type |-> "str", text |-> text]

\* provider = provider or self.default
resolved(provider) == IF Truthy(provider) THEN provider ELSE config.default_provider

\* resp['choices'][0]['message']['content'], returned as it is
content_of(outcome) ==
    IF outcome = "200 segments"
    THEN [sent |-> TRUE, raised |-> FALSE, type |-> "list",
          text |-> [i \in 1..Len(Segments) |-> Segments[i].text]]
    ELSE Reply(TRUE, FALSE, <<"content">>)

\* LLMBackend.query of src/mcp_backend.py.  conf['model'] is read before the
\* try block.
query(provider, outcome) ==
    LET p == resolved(provider) IN
    IF p \notin config.providers
    THEN Reply(FALSE, FALSE, <<"Error: Provider '", p, "' not configured">>)
    ELSE IF p \in config.incomplete
    THEN Reply(FALSE, TRUE, <<"KeyError">>)
    ELSE IF p \in {"grok", "openai", "claude"} /\ p \notin config.api_keys
    THEN Reply(FALSE, FALSE, <<"Error: API key not set">>)
    ELSE IF p \in {"grok", "openai", "claude", "ollama"}
    THEN CASE outcome \in {"200", "200 segments"} -> content_of(outcome)
           [] outcome = "200 malformed" -> Reply(TRUE, FALSE, <<"Error: ", "KeyError">>)
           [] outcome = "500" -> Reply(TRUE, FALSE, <<p, " API Error 500">>)
           [] outcome = "TimeoutError" ->
                 Reply(TRUE, FALSE, <<"Error: Request timed out">>)
           [] OTHER -> Reply(TRUE, FALSE, <<"Network error">>)
    ELSE Reply(FALSE, FALSE, <<"Provider '", p, "' not supported.">>)

\* LLMBackend.query of src/local_directory_memory_mcp_refactored.py: the
\* provider's configuration and its model are read before the try block, and
\* no API key is looked for.
query_refactored(provider, outcome) ==
    LET p == resolved(provider) IN
    IF p \notin config.providers \/ p \in config.incomplete
    THEN Reply(FALSE, TRUE, <<"KeyError">>)
    ELSE IF p \in {"openai", "grok"}
    THEN IF outcome \in {"200", "200 segments"} THEN content_of(outcome)
         ELSE Reply(TRUE, FALSE, <<"Error: ", outcome>>)
    ELSE Reply(FALSE, FALSE, <<"None">>)

Sent(provider, now) == [provider |-> provider, time |-> now]

\* LLMBackend.query called by a dispatcher (call_tool, or the HTTP wrapper of
\* src/server.py) with the provider the client named.
LLMBackend_query(provider, outcome) ==
    /\ server.state = "running"
    /\ clock < MaxClock
    /\ clock' = clock + 1
    /\ LET r == query(provider, outcome) IN
       /\ requests' = IF r.sent THEN Append(requests, Sent(resolved(provider), clock'))
                      ELSE requests
       /\ ret' = [tool |-> "query", provider |-> provider, raised |-> r.raised,
                  type |-> r.type, text |-> r.text]
    /\ UNCHANGED <<memories, memory_file, context, config, fs, mon, gui, proposed,
                   decided, sanImpl, sanReq, sanRes, server, readonly, recent_changes, threads, RUN>>

\* call_tool, name == "llm_query" (src/mcp_backend.py): the provider is "grok"
\* whatever the arguments name.  The response is remembered twice and then
\* wrapped in TextContent, whose text must be a str.
llm_query(prompt, provider) ==
    /\ clock < MaxClock
    /\ clock' = clock + 1
    /\ \E outcome \in Outcomes :
          LET r == query("grok", outcome) IN
          /\ requests' = IF r.sent THEN Append(requests, Sent("grok", clock'))
                         ELSE requests
          /\ IF r.raised
             THEN UNCHANGED <<memories, memory_file>>
             ELSE /\ memories' = remembered(
                                   remembered(memories, "chat_" \o ToString(clock'),
                                              r.text, "conversations"),
                                   "grok_" \o ToString(clock'), r.text, "llm")
                  /\ memory_file' = save(memories', context)
          /\ ret' = [tool |-> "llm_query", provider |-> provider,
                     raised |-> r.raised \/ r.type # "str",
                     type |-> r.type, text |-> r.text]
    /\ UNCHANGED <<context, config, fs, mon, gui, proposed, decided,
                   sanImpl, sanReq, sanRes, server, readonly, recent_changes, threads, RUN>>

\* The llm_query handler of src/local_directory_memory_mcp_refactored.py:
\* args.get("provider", "grok").  Its _save writes the memories alone, and its
\* result is the JSON text of the response.
llm_query_refactored(prompt, provider) ==
    /\ clock < MaxClock
    /\ clock' = clock + 1
    /\ \E outcome \in Outcomes :
          LET named == IF provider = NoArg THEN "grok" ELSE provider
              r     == query_refactored(named, outcome)
          IN
          /\ requests' = IF r.sent THEN Append(requests, Sent(resolved(named), clock'))
                         ELSE requests
          /\ IF r.raised
             THEN UNCHANGED <<memories, memory_file>>
             ELSE /\ memories' = remembered(memories, "llm_" \o ToString(clock'),
                                            r.text, "llm")
                  /\ memory_file' = Json(memories')
          /\ ret' = [tool |-> "llm_query", provider |-> provider,
                     raised |-> r.raised, type |-> "str", text |-> r.text]
    /\ UNCHANGED <<context, config, fs, mon, gui, proposed, decided,
                   sanImpl, sanReq, sanRes, server, readonly, recent_changes, threads, RUN>>

\* The provider sections a configuration may have, the keys the environment
\* may hold, and the providers whose section lacks its model.
ProviderSets == {{"grok"}, {"openai"}, {"grok", "openai"}}

\* FGDMCPServer.__init__ raises when the default provider is grok and
\* XAI_API_KEY is not set.
Constructible(c) == ~(c.default_provider = "grok" /\ "grok" \notin c.api_keys)

LLMConfigs ==
    {c \in UNION {[providers : {P}, default_provider : P, api_keys : SUBSET P,
                   incomplete : {I \in SUBSET P : Cardinality(I) <= 1}] :
                  P \in ProviderSets} : Constructible(c)}

\* A server built from one of these configurations.
LLMInit ==
    /\ config \in LLMConfigs
    /\ requests = <<>>
    /\ memories = EmptyDict
    /\ context = <<>>
    /\ memory_file = Absent
    /\ server = Serving
    /\ readonly = {}
    /\ clock = 0
    /\ ret = [tool |-> "none", provider |-> NoArg, raised |-> FALSE, type |-> "str",
              text |-> <<>>]
    /\ fs = <<>>
    /\ mon = <<>>
    /\ gui = <<>>
    /\ proposed = {}
    /\ decided = {}
    /\ sanImpl = "none"
    /\ sanReq = Rel(<<>>)
    /\ sanRes = Returned(watch_dir)
    /\ recent_changes = <<>>
    /\ threads = <<>>
    /\ RUN = <<>>

LLMNext ==
    \/ \E prompt \in Prompts, provider \in Providers \cup {NoArg} :
          llm_query(prompt, provider)
    \/ \E prompt \in Prompts, provider \in Providers \cup {NoArg} :
          llm_query_refactored(prompt, provider)
    \/ \E provider \in Providers \cup {NoArg}, outcome \in Outcomes :
          LLMBackend_query(provider, outcome)

SpecLLM == LLMInit /\ [][LLMNext]_vars

(***************************************************************************)
(* SpecStartup: FGDMCPServer.__init__ and run, from a configuration and an *)
(* environment (platform.system(), the API-key variables, the disk), and   *)
(* the queries a constructed server answers.  A str of a path is the tuple *)
(* of its pieces; fs maps the paths of the disk to what is there.          *)
(***************************************************************************)
Dir(access) == [kind |-> "dir", access |-> access]

File == [kind |-> "file", access |-> TRUE]

\* Nothing there; creatable when mkdir(parents=True) would succeed.
Missing(creatable) == [kind |-> "missing", creatable |-> creatable]

Link(target) == [kind |-> "link", target |-> target]

SRV_DIR == <<"/srv/dir">>

C_TEMP == <<"C:", "/Temp">>

Disk ==
    (<<"/srv/dir">>    :> Dir(TRUE))  @@
    (<<"/srv/locked">> :> Dir(FALSE)) @@
    (<<"/srv/file">>   :> File)       @@
    (<<"/srv/link">>   :> Link(<<"/srv/file">>)) @@
    (<<"/srv/new">>    :> Missing(TRUE))  @@
    (<<"/ro/new">>     :> Missing(FALSE)) @@
    (C_TEMP            :> Missing(TRUE))

\* The values of watch_dir in fgd_config.yaml.
WatchDirs == DOMAIN Disk \cup {<<>>, <<" ", " ">>, <<" ", "/srv/dir", " ">>}

\* str.strip()
RECURSIVE strip(_)
strip(str) ==
    IF str = <<>> THEN str
    ELSE IF str[1] = " " THEN strip(SubSeq(str, 2, Len(str)))
    ELSE IF str[Len(str)] = " " THEN strip(SubSeq(str, 1, Len(str) - 1))
    ELSE str

\* PureWindowsPath(str).drive
windows_drive(str) == IF Len(str) > 0 /\ str[1] = "C:" THEN str[1] ELSE ""

\* Path.resolve(strict=False)
resolve(disk, path) == IF disk[path].kind = "link" THEN disk[path].target ELSE path

\* FGDMCPServer._validate_paths
validate_paths(cfg, disk) ==
    LET watch_dir_str == strip(IF "watch_dir" \in DOMAIN cfg THEN cfg.watch_dir ELSE <<>>)
    IN IF watch_dir_str = <<>>
       THEN Raised("watch_dir is not configured")
       ELSE IF windows_drive(watch_dir_str) # "" /\ cfg.platform # "Windows"
       THEN Raised("watch_dir is configured with a Windows-specific path")
       ELSE LET resolved_path == resolve(disk, watch_dir_str) IN
            IF disk[resolved_path].kind = "file"
            THEN Raised("watch_dir exists but is not a directory")
            ELSE Returned(resolved_path)

Prepared(ok, disk, path, error) ==
    [ok |-> ok, disk |-> disk, path |-> path, error |-> error]

\* A _prepare_watch_dir that does not ask os.access; C25 does not survive it.
prepare_watch_dir_unchecked(disk, path) ==
    IF disk[path].kind = "missing" /\ ~disk[path].creatable
    THEN Prepared(FALSE, disk, path, "Failed to create watch_dir")
    ELSE Prepared(TRUE,
                  IF disk[path].kind = "missing"
                  THEN [disk EXCEPT ![path] = Dir(TRUE)] ELSE disk,
                  path, "")

\* FGDMCPServer._prepare_watch_dir
prepare_watch_dir(disk, path) ==
    IF disk[path].kind = "missing" /\ ~disk[path].creatable
    THEN Prepared(FALSE, disk, path, "Failed to create watch_dir")
    ELSE LET made == IF disk[path].kind = "missing"
                     THEN [disk EXCEPT ![path] = Dir(TRUE)] ELSE disk
         IN IF made[path].kind # "dir"
            THEN Prepared(FALSE, made, path, "watch_dir is not a directory")
            ELSE IF ~made[path].access
            THEN Prepared(FALSE, made, path, "watch_dir must be readable and writable")
            ELSE Prepared(TRUE, made, path, "")

XAI_API_KEY_REQUIRED == "XAI_API_KEY environment variable is required"

Unbuilt ==
    [state |-> "new", observer |-> FALSE, approval_task |-> FALSE, error |-> ""]

\* The constructor raised ValueError(error): nothing was started before.
Failed(error) == [Unbuilt EXCEPT !.state = "failed", !.error = error]

\* FGDMCPServer.__init__: the watch directory, the memory store, the provider
\* check, then the watcher, whose failure to start is only logged.
FGDMCPServer_init ==
    /\ server.state = "new"
    /\ LET v == validate_paths(config, fs) IN
       IF ~v.ok
       THEN /\ server' = Failed(v.error)
            /\ UNCHANGED <<fs, memories, context>>
       ELSE LET p == prepare_watch_dir(fs, v.path) IN
            /\ fs' = p.disk
            /\ IF ~p.ok
               THEN /\ server' = Failed(p.error)
                    /\ UNCHANGED <<memories, context>>
               ELSE /\ memories' = MemoryStore_init(memory_file).memories
                    /\ context' = MemoryStore_init(memory_file).context
                    /\ IF ~Constructible(config)
                       THEN server' = Failed(XAI_API_KEY_REQUIRED)
                       ELSE \E started \in BOOLEAN :
                               server' = [state |-> "constructed", observer |-> started,
                                          approval_task |-> FALSE, error |-> "",
                                          watch_dir |-> p.path]
    /\ UNCHANGED <<config, requests, memory_file, readonly, recent_changes, threads,
                   RUN, mon, gui, clock, ret,
                   proposed, decided, sanImpl, sanReq, sanRes>>

\* FGDMCPServer.run: the approval monitor becomes a task of the event loop.
FGDMCPServer_run ==
    /\ server.state = "constructed"
    /\ server' = [server EXCEPT !.state = "running", !.approval_task = TRUE]
    /\ UNCHANGED <<fs, memories, context, config, requests, memory_file, readonly,
                   recent_changes, threads, RUN,
                   mon, gui, clock, ret, proposed, decided, sanImpl, sanReq, sanRes>>

KeyProviders == {"grok", "openai", "claude"}

DefaultProviders == KeyProviders \cup {"ollama"}

\* Either the watch directory and the platform vary, or the default provider
\* and the API keys of the environment do.
StartupConfigs ==
    LET all == [watch_dir : WatchDirs, platform : {"Linux", "Windows"},
                providers : {DefaultProviders}, incomplete : {{}},
                default_provider : DefaultProviders, api_keys : SUBSET KeyProviders]
        llm == [providers : {DefaultProviders}, incomplete : {{}},
                default_provider : {"ollama"}, api_keys : {{}}, platform : {"Linux"}]
    IN {c \in all : \/ c.default_provider = "ollama" /\ c.api_keys = {}
                    \/ c.watch_dir = SRV_DIR /\ c.platform = "Linux"}
       \cup llm

StartupInit ==
    /\ config \in StartupConfigs
    /\ fs = Disk
    /\ server = Unbuilt
    /\ requests = <<>>
    /\ memories = EmptyDict
    /\ context = <<>>
    /\ memory_file = Absent
    /\ readonly = {}
    /\ clock = 0
    /\ ret = [tool |-> "none", provider |-> NoArg, raised |-> FALSE, type |-> "str",
              text |-> <<>>]
    /\ mon = <<>>
    /\ gui = <<>>
    /\ proposed = {}
    /\ decided = {}
    /\ sanImpl = "none"
    /\ sanReq = Rel(<<>>)
    /\ sanRes = Returned(watch_dir)
    /\ recent_changes = <<>>
    /\ threads = <<>>
    /\ RUN = <<>>

StartupNext ==
    \/ FGDMCPServer_init
    \/ FGDMCPServer_run
    \/ \E provider \in KeyProviders \cup {NoArg}, outcome \in {"200", "500"} :
          LLMBackend_query(provider, outcome)

SpecStartup == StartupInit /\ [][StartupNext]_vars

(***************************************************************************)
(* SpecSanitize: the path guard applied to client-supplied paths.          *)
(***************************************************************************)
Components == {"..", ".", "sb", "sb2", "etc", "link", "a.txt"}

ClientPaths ==
    {[abs |-> a, comps |-> c] : a \in BOOLEAN, c \in SeqsUpTo(Components, MaxPathLen)}

EditIdle ==
    /\ fs = <<>>
    /\ context = <<>>
    /\ mon = <<>>
    /\ gui = <<>>
    /\ clock = 0
    /\ ret = <<>>
    /\ proposed = {}
    /\ decided = {}
    /\ memories = <<>>
    /\ config = <<>>
    /\ requests = <<>>
    /\ memory_file = <<>>
    /\ server = Serving
    /\ readonly = {}

\* A client path arrives; no _sanitize has run on it yet.
SanInit ==
    /\ sanImpl = "none"
    /\ sanReq \in ClientPaths
    /\ sanRes = Returned(watch_dir)
    /\ recent_changes = <<>>
    /\ threads = <<>>
    /\ RUN = <<>>
    /\ EditIdle

CallSanitize ==
    /\ sanImpl = "none"
    /\ sanImpl' = "mcp_backend"
    /\ sanRes' = Sanitize(sanReq)
    /\ UNCHANGED <<sanReq, fs, context, mon, gui, clock, ret, proposed, decided,
                 storeVars>>

CallSanitizeRefactored ==
    /\ sanImpl = "none"
    /\ sanImpl' = "refactored"
    /\ sanRes' = SanitizeRefactored(sanReq)
    /\ UNCHANGED <<sanReq, fs, context, mon, gui, clock, ret, proposed, decided,
                 storeVars>>

SanNext == CallSanitize \/ CallSanitizeRefactored

SpecSanitize == SanInit /\ [][SanNext]_vars

(***************************************************************************)
(* Claims about the path guard (SpecSanitize).                             *)
(***************************************************************************)
\* Where a path leads once symbolic links and ".." are resolved: inside the
\* sandbox means the root itself or below it, component by component.
InSandbox(p) == IsPrefix(watch_dir, Resolve(p))

HasParentSegment(rel) == \E i \in DOMAIN rel.comps : rel.comps[i] = ".."

\* The textual check of a client path: absolute, or normalized to a path that
\* begins with "..".
TextuallyRejected(rel) ==
    rel.abs \/ (normpath(rel).comps # <<>> /\ Head(normpath(rel).comps) = "..")

\* The prefix check of the joined path after filesystem-level resolution.
PrefixRejected(rel) ==
    ~IsPrefix(PathStr(watch_dir), PathStr(Resolve(Join(watch_dir, rel))))

\* C1: every path _sanitize returns leads, after symlink and ".." resolution,
\* to the sandbox root or below it, and every client path that leads anywhere
\* else is refused.
C1_ReturnedPathsStayInSandbox ==
    sanImpl # "none" =>
        /\ sanRes.ok => InSandbox(sanRes.path)
        /\ ~InSandbox(Join(watch_dir, sanReq)) => ~sanRes.ok

\* C2: every relative path with a ".." segment is refused, and every relative
\* path that resolves inside the sandbox is returned as an absolute path that
\* has the sandbox root as prefix (absolute client paths are C3's subject).
C2_ParentSegmentsRefused ==
    sanImpl # "none" =>
        /\ (~sanReq.abs /\ HasParentSegment(sanReq)) => ~sanRes.ok
        /\ (~sanReq.abs /\ InSandbox(Join(watch_dir, sanReq))) =>
              sanRes.ok /\ IsPrefix(PathStr(watch_dir), PathStr(sanRes.path))

\* C3: every absolute client path is refused, and a path is refused whenever
\* either check fails: the textual one before the join or the prefix one
\* after resolution.
C3_AbsoluteRefusedBothChecks ==
    sanImpl # "none" =>
        /\ sanReq.abs => ~sanRes.ok
        /\ (TextuallyRejected(sanReq) \/ PrefixRejected(sanReq)) => ~sanRes.ok

(***************************************************************************)
(* Claims about the edit pipeline (Spec).                                  *)
(***************************************************************************)
\* The file a pipeline path names, and its .bak sibling.
TargetOf(filepath) == watch_dir \o filepath.comps

BackupOf(filepath) == watch_dir \o <<"a.bak">>

OldTextAbsent(old, s) == \A i \in 1..(Len(s) + 1) : ~Occurs(old, s, i)

\* s with its first occurrence of old, and only that one, replaced by new.
OnlyFirstReplaced(s, old, new) ==
    LET i == CHOOSE k \in 1..(Len(s) + 1) :
                 Occurs(old, s, k) /\ \A j \in 1..(k - 1) : ~Occurs(old, s, j)
    IN [k \in 1..(Len(s) - Len(old) + Len(new)) |->
            IF k < i THEN s[k]
            ELSE IF k < i + Len(new) THEN new[k - i + 1]
            ELSE s[k - Len(new) + Len(old)]]

FirstChars(s, n) == [k \in 1..(IF Len(s) < n THEN Len(s) ELSE n) |-> s[k]]

DecidedEdit(d) == Edit(d.filepath, d.old_text, d.new_text)

\* C4: the monitor applies an edit only if edit_file proposed that same edit
\* (filepath, old_text, new_text) before and wrote its PendingEdit record.
C4_OnlyProposedEditsApplied ==
    [][(MonitorApply /\ context' # context)
          => DecidedEdit(mon.approval_data) \in proposed]_vars

\* C5: once the monitor has consumed the approval of a proposed edit, the
\* target holds its content at apply time with only the first occurrence of
\* old_text replaced, the .bak holds the content before the edit, and neither
\* the approval file nor the pending-edit file exists.
C5_ApprovedEditAppliedAndBothFilesGone ==
    [][LET d == mon.approval_data IN
       /\ (/\ MonitorApply
           /\ d \in decided
           /\ Exists(TargetOf(d.filepath))
           /\ ~OldTextAbsent(d.old_text, fs[TargetOf(d.filepath)].content)) =>
             /\ fs'[TargetOf(d.filepath)] =
                   Text(OnlyFirstReplaced(fs[TargetOf(d.filepath)].content,
                                          d.old_text, d.new_text))
             /\ fs'[BackupOf(d.filepath)] = fs[TargetOf(d.filepath)]
       /\ (MonitorUnlink /\ d.approved /\ d \in decided) =>
             /\ fs'[approval_file] = Absent
             /\ fs'[pending_edit_file] = Absent]_vars

\* C6: once the monitor has consumed a rejection, the target and its .bak are
\* as they were, and neither the approval file nor the pending-edit file
\* exists.
C6_RejectionChangesNothingAndBothFilesGone ==
    [][(MonitorUnlink /\ ~mon.approval_data.approved
                      /\ mon.approval_data \in decided) =>
          /\ fs'[TargetOf(mon.approval_data.filepath)]
                = fs[TargetOf(mon.approval_data.filepath)]
          /\ fs'[BackupOf(mon.approval_data.filepath)]
                = fs[BackupOf(mon.approval_data.filepath)]
          /\ fs'[approval_file] = Absent
          /\ fs'[pending_edit_file] = Absent]_vars

\* C7: the decision the monitor deletes is the decision it read and acted on,
\* also when the GUI writes a new one between the read and the delete.
C7_DeletedDecisionIsTheOneActedOn ==
    [][MonitorUnlink =>
          /\ Exists(approval_file)
          /\ fs[approval_file] = Json(mon.approval_data)]_vars

\* C8: when an edit was proposed and approved but old_text no longer occurs
\* in the target at apply time, the apply step writes neither the target nor
\* its .bak, and the loop keeps running.
C8_StaleEditTouchesNothing ==
    [][LET d == mon.approval_data IN
       (/\ MonitorApply
        /\ d \in decided
        /\ Exists(TargetOf(d.filepath))
        /\ OldTextAbsent(d.old_text, fs[TargetOf(d.filepath)].content))
       => /\ fs' = fs
          /\ context' = context
          /\ mon'.pc # "dead"]_vars

\* C9: proposing an edit whose file does not exist, or whose old_text is not
\* in the file, returns a not-found error and changes no file (the target, the
\* pending-edit file), nor the memory context, nor the pipeline's state.
C9_FailedProposalChangesNothing ==
    [][\A filepath \in UserPaths, old_text \in OldTexts, new_text \in NewTexts :
          (/\ edit_file(filepath, old_text, new_text, FALSE)
           /\ \/ ~Exists(TargetOf(filepath))
              \/ OldTextAbsent(old_text, fs[TargetOf(filepath)].content))
          => /\ ret'.tool = "edit_file"
             /\ ret'.text \in {"File not found", "Old text not found"}
             /\ UNCHANGED <<fs, context, proposed, decided, gui, mon>>]_vars

\* A refused proposal that found an earlier PendingEdit record in place.
C9_Witness ==
    /\ ret.tool = "edit_file"
    /\ ret.text = "Old text not found"
    /\ Exists(pending_edit_file)
    /\ context # <<>>

C13_CallToolNeverRaises ==
    ret.text # "raised ValueError"

(***************************************************************************)
(* Claims about MemoryStore (SpecMemory).                                  *)
(***************************************************************************)
HasEntry(m, key, category) == category \in DOMAIN m /\ key \in DOMAIN m[category]

\* C14: whatever the configured limit, the context never holds more than
\* limit entries.
C14_ContextWithinLimit ==
    Len(context) <= config.context_limit

\* C15: remember(k, v, c) leaves the entry with value v and access_count 0,
\* and each keyed recall(k, c) of a stored entry returns that one entry with
\* its value and one access more; so the n-th recall after a remember returns
\* v with access_count n.
C15_KeyedRecallCountsFromRemember ==
    [][\A key \in Keys, category \in Categories :
          /\ \A value \in Values :
                remember(key, value, category)
                => /\ HasEntry(memories', key, category)
                   /\ memories'[category][key].value = value
                   /\ memories'[category][key].access_count = 0
          /\ (recall(key, category) /\ HasEntry(memories, key, category))
                => /\ DOMAIN ret'.result = {key}
                   /\ ret'.result[key].value = memories[category][key].value
                   /\ ret'.result[key].access_count
                         = memories[category][key].access_count + 1]_vars

C17_KeyedRecallReturnsOneOrNone ==
    [][\A key \in Keys \ {""}, category \in Categories :
          recall(key, category)
          => IF HasEntry(memories, key, category)
             THEN /\ DOMAIN ret'.result = {key}
                  /\ ret'.result[key].value = memories[category][key].value
             ELSE DOMAIN ret'.result = {}]_vars

(***************************************************************************)
(* Claims about the LLM router (SpecLLM).  The rate window of the          *)
(* specification's example: 2 requests per 60 seconds; the clock counts    *)
(* seconds.                                                                *)
(***************************************************************************)
RateWindow == [max_requests |-> 2, window_seconds |-> 60]

\* The requests sent within the window that ends at time now.
InWindow(now) ==
    {j \in 1..Len(requests) : requests[j].time > now - RateWindow.window_seconds}

InText(part, text) == \E n \in 1..Len(text) : text[n] = part

\* C18: in any interval of window_seconds, at most max_requests requests are
\* admitted.
C18_AtMostMaxRequestsPerWindow ==
    \A n \in 1..Len(requests) :
        Cardinality({j \in InWindow(requests[n].time) : j <= n})
            <= RateWindow.max_requests

\* C19: a query made when the window already holds max_requests requests sends
\* no HTTP request, raises nothing and returns a rate-limit text.
C19_FullWindowRejectsQuery ==
    [][(clock' = clock + 1
           /\ Cardinality(InWindow(clock')) >= RateWindow.max_requests)
          => /\ requests' = requests
             /\ ~ret'.raised
             /\ InText("rate limit", ret'.text)]_vars

\* C20: llm_query naming a provider that the configuration does not have
\* returns an error text with that provider's name in it, raises nothing and
\* sends no HTTP request.
C20_UnconfiguredProviderNamedInError ==
    [][\A prompt \in Prompts, provider \in Providers :
          (/\ provider \notin config.providers
           /\ llm_query(prompt, provider) \/ llm_query_refactored(prompt, provider))
          => /\ ~ret'.raised
             /\ InText(provider, ret'.text)
             /\ requests' = requests]_vars

\* C21: a request that the llm_query tool sends goes to the provider named in
\* its provider argument, or to the configured default provider when none is
\* named, and to no other provider.
C21_QueryGoesToResolvedProvider ==
    [][\A prompt \in Prompts, provider \in Providers \cup {NoArg} :
          (/\ llm_query(prompt, provider) \/ llm_query_refactored(prompt, provider)
           /\ requests' # requests)
          => /\ Len(requests') = Len(requests) + 1
             /\ requests'[Len(requests')].provider = resolved(provider)]_vars

\* C22: LLMBackend.query returns a str whatever the provider's configuration,
\* the environment and the endpoint do, and no exception escapes from it, in
\* src/mcp_backend.py and in src/local_directory_memory_mcp_refactored.py.
C22_QueryAlwaysReturnsString ==
    [][\A provider \in Providers \cup {NoArg} :
          /\ (\E outcome \in Outcomes : LLMBackend_query(provider, outcome))
                => ~ret'.raised /\ ret'.type = "str"
          /\ (\E prompt \in Prompts : llm_query_refactored(prompt, provider))
                => ~ret'.raised]_vars

\* The str that is the concatenation, in order, of the text of the segments.
Flatten(segments) ==
    [type |-> "str", text |-> [i \in 1..Len(segments) |-> segments[i].text]]

\* C28: the text extracted from a 200 response whose message content is a list
\* of {type, text} segments is the concatenation of the segments' text in
\* order, and from a response whose content is a flat string it is that string.
C28_SegmentsAreFlattened ==
    [][\A provider \in Providers \cup {NoArg} :
          /\ (LLMBackend_query(provider, "200 segments") /\ requests' # requests)
                => /\ ret'.type = Flatten(Segments).type
                   /\ ret'.text = Flatten(Segments).text
          /\ (LLMBackend_query(provider, "200") /\ requests' # requests)
                => ret'.type = "str" /\ ret'.text = <<"content">>]_vars

(***************************************************************************)
(* Claims about the store and its backing document (SpecStore).            *)
(***************************************************************************)
\* C26: while the backing document is one that is not a well-formed memory
\* document (unreadable, not JSON, or JSON of another shape), the store built
\* on it starts empty and none of its operations has raised.
C26_MalformedDocumentGivesEmptyStore ==
    (memory_file \in BackingDocuments \ WellFormedDocuments)
       => /\ is_dict(memories)
          /\ ret.error = ""
          /\ clock = 0 => DOMAIN memories = {} /\ context = <<>>

\* C27: an operation whose write of the backing document fails returns
\* normally (no OSError reaches its caller), leaves the document as it was and
\* keeps its mutation in memory: the remembered entry is there, the recalled
\* entry has one access more, the context entry is the last of the context.
C27_FailedSaveKeepsMutation ==
    [][(memory_path \in readonly /\ clock' = clock + 1)
          => /\ ret'.error # "OSError"
             /\ memory_file' = memory_file
             /\ \A key \in Keys, category \in Categories :
                   (ret'.key = key /\ ret'.category = category)
                   => /\ (ret'.tool = "remember" /\ is_dict(memories))
                         => /\ ret'.error = ""
                            /\ HasEntry(memories', key, category)
                            /\ memories'[category][key].access_count = 0
                      /\ (ret'.tool = "recall" /\ recall_hit(memories, key, category))
                         => /\ ret'.error = ""
                            /\ memories'[category][key].access_count
                                  = memories[category][key].access_count + 1
                            /\ ret'.result[key] = memories'[category][key]
             /\ ret'.tool = "add_context"
                   => /\ ret'.error = ""
                      /\ Len(context') > 0
                      /\ context'[Len(context')].timestamp = clock']_vars

\* A keyed recall that returns, with one access, an entry remembered while no
\* write of the document succeeded: the document is still absent.
C27_Witness ==
    /\ memory_path \in readonly
    /\ memory_file = Absent
    /\ ret.tool = "recall"
    /\ ret.error = ""
    /\ ret.key = "k1"
    /\ "k1" \in DOMAIN ret.result
    /\ ret.result["k1"].access_count = 1

(***************************************************************************)
(* Claims about the start of the server (SpecStartup).                     *)
(***************************************************************************)
\* C23: a missing API key never stops the server from starting, whichever
\* provider lacks it, the default one included; and a query to a provider
\* whose key is missing sends no HTTP request, raises nothing and returns an
\* error text.
C23_MissingKeyNeverStopsStartup ==
    [][/\ (FGDMCPServer_init /\ server'.state = "failed")
             => server'.error # XAI_API_KEY_REQUIRED
       /\ \A provider \in KeyProviders \cup {NoArg}, outcome \in Outcomes :
             (/\ LLMBackend_query(provider, outcome)
              /\ resolved(provider) \in KeyProviders \ config.api_keys)
             => /\ requests' = requests
                /\ ~ret'.raised
                /\ ret'.text = <<"Error: API key not set">>]_vars

\* C24: the construction of a server whose default provider needs an API key
\* that the environment does not hold fails, for grok, openai and claude
\* alike, and leaves no watcher and no monitor running.
C24_MissingDefaultKeyIsFatal ==
    (/\ server.state # "new"
     /\ config.default_provider \in KeyProviders \ config.api_keys)
       => /\ server.state = "failed"
          /\ ~server.observer
          /\ ~server.approval_task

\* watch_dir as the configuration has it ('' when the key is missing), and
\* without the blanks around it.
Configured == IF "watch_dir" \in DOMAIN config THEN config.watch_dir ELSE <<>>

Blank(str) == \A i \in 1..Len(str) : str[i] = " "

Unpadded(str) == SelectSeq(str, LAMBDA piece : piece # " ")

WindowsOnPosix(str) == ~Blank(str) /\ Unpadded(str)[1] = "C:" /\ config.platform # "Windows"

\* What was at the end of the configured path before the server was built.
Before(str) ==
    LET there == Disk[Unpadded(str)] IN
    IF there.kind = "link" THEN Disk[there.target] ELSE there

\* C25: the construction fails with ValueError when watch_dir is missing or
\* blank, is a Windows-drive path on another platform, or resolves to an
\* existing non-directory; a missing directory is created, and a directory
\* that cannot be created or is not readable and writable fails the
\* construction; so the watch_dir of every constructed server exists, is a
\* directory and is accessible.
C25_WatchDirValidated ==
    server.state # "new" =>
       /\ Blank(Configured)
             => server.state = "failed" /\ server.error = "watch_dir is not configured"
       /\ WindowsOnPosix(Configured)
             => /\ server.state = "failed"
                /\ server.error = "watch_dir is configured with a Windows-specific path"
       /\ (~Blank(Configured) /\ ~WindowsOnPosix(Configured))
             => LET before == Before(Configured) IN
                /\ before.kind = "file"
                      => /\ server.state = "failed"
                         /\ server.error = "watch_dir exists but is not a directory"
                /\ before.kind = "missing"
                      => IF before.creatable
                         THEN fs[Unpadded(Configured)] = Dir(TRUE)
                         ELSE server.state = "failed"
                /\ (before.kind = "dir" /\ ~before.access)
                      => /\ server.state = "failed"
                         /\ server.error = "watch_dir must be readable and writable"
       /\ server.state \in {"constructed", "running"}
             => /\ fs[server.watch_dir].kind = "dir"
                /\ fs[server.watch_dir].access

\* A running server whose watch directory was not there before it was built.
C25_Witness ==
    /\ server.state = "running"
    /\ Disk[server.watch_dir].kind = "missing"
    /\ fs[server.watch_dir] = Dir(TRUE)

(***************************************************************************)
(* Claims about the monitor loop (SpecMonitor) and the backups             *)
(* (SpecBackup).                                                           *)
(***************************************************************************)
\* C29: with the monitor loop scheduled fairly, every decision file that
\* appears is eventually removed, whatever it holds; so the loop goes on
\* polling after a decision it could not apply, and removes the later ones.
C29_EveryDecisionConsumed == Exists(approval_file) ~> ~Exists(approval_file)

\* The .bak sibling of a target.
BakSibling(target) ==
    IF target = approval_file THEN watch_dir \o <<".fgd_approval.bak">>
    ELSE watch_dir \o <<"a.bak">>

\* A step that is to write new_content to an existing target: if the target
\* ends with another content than it had, the .bak ends with the content the
\* target had; a target that cannot be written keeps its content; and a target
\* that can, and is not its own .bak, is written.
CopiedBeforeWritten(target, new_content) ==
    Exists(target) =>
       /\ fs'[target] # fs[target] => fs'[BakSibling(target)] = fs[target]
       /\ target \in readonly => fs'[target] = fs[target]
       /\ (target \notin readonly /\ BakSibling(target) # target)
             => /\ fs'[target] = new_content
                /\ fs'[BakSibling(target)] = fs[target]

\* The content of target with the first old_text replaced, or as it is.
Edited(target, old_text, new_text) ==
    IF OldTextAbsent(old_text, fs[target].content) THEN fs[target]
    ELSE Text(OnlyFirstReplaced(fs[target].content, old_text, new_text))

Persisted(file, m, ctx) ==
    /\ file.kind = "json"
    /\ LET doc == file.doc
           full == is_dict(doc) /\ {"memories", "context"} \subseteq DOMAIN doc
       IN /\ (IF full THEN doc.memories ELSE doc) = m
          /\ (IF full THEN doc.context ELSE <<>>) = ctx

\* The operation that has just returned changed the store.
Mutation ==
    /\ clock' = clock + 1
    /\ ret'.error = ""
    /\ \/ ret'.tool \in {"remember", "add_context"}
       \/ ret'.tool = "recall" /\ recall_hit(memories, ret'.key, ret'.category)

\* C31: after every completed remember, keyed recall that finds its entry,
\* and add_context, with no write failure, the memories and the context of
\* the persisted document equal the memories and the context of the store.
C31_DocumentEqualsStore ==
    [][(Mutation /\ memory_path \notin readonly)
          => Persisted(memory_file', memories', context')]_vars


(***************************************************************************)
(* Claims about the change-watcher (SpecWatcher).                          *)
(***************************************************************************)
\* The path of a file under the sandbox root, relative to the root
Under(path) == SubSeq(path, Len(watch_dir) + 1, Len(path))

\* C32: an event on a file under the sandbox root appends exactly one entry to
\* recent_changes and one file_change entry to the context, each after the
\* entries that were there, in their order; recent_changes never holds more
\* than 50 entries and loses its oldest entry first; an event on a path
\* outside the sandbox root changes neither and raises nothing.
C32_OneEntryPerEvent ==
    [][\A event_type \in EventTypes, src_path \in EventPaths :
          FileChangeHandler(event_type, src_path, FALSE)
          => /\ ret'.error = ""
             /\ Len(recent_changes') <= RECENT_CHANGES_LIMIT
             /\ ~InSandbox(src_path)
                => recent_changes' = recent_changes /\ context' = context
             /\ InSandbox(src_path)
                => LET n  == Len(recent_changes)
                       n1 == Len(recent_changes')
                       c  == Len(context)
                       c1 == Len(context')
                   IN /\ n1 = (IF n < RECENT_CHANGES_LIMIT THEN n + 1 ELSE n)
                      /\ Last(recent_changes')
                            = Change(event_type, Under(src_path), clock')
                      /\ \A i \in 1..(n1 - 1) :
                            recent_changes'[i] = recent_changes[i + (n + 1 - n1)]
                      /\ c1 = (IF c < config.context_limit THEN c + 1 ELSE c)
                      /\ Last(context')
                            = FileChange(event_type, Under(src_path), clock')
                      /\ \A i \in 1..(c1 - 1) :
                            context'[i] = context[i + (c + 1 - c1)]]_vars

\* The ring was full, two more events of files under the root arrived, and
\* the two oldest entries are gone.
C32_Witness ==
    /\ Len(recent_changes) = RECENT_CHANGES_LIMIT
    /\ recent_changes[1].timestamp = 2 - (RECENT_CHANGES_LIMIT - 1)
    /\ Last(recent_changes).timestamp = clock
    /\ Last(recent_changes).type = "deleted"
    /\ Last(context).data.type = "deleted"
    /\ clock = 2


(***************************************************************************)
(* Claims about the store under two writers (SpecRace).                    *)
(***************************************************************************)
\* The context entries the two calls appended, in the order of their appends
Appended ==
    LET o == threads["observer"].entry
        l == threads["loop"].entry
    IN IF threads["loop"].call # "add_context" THEN <<o>>
       ELSE IF o.timestamp < l.timestamp THEN <<o, l>> ELSE <<l, o>>

\* C33: once a call of the observer's thread and a call of the event loop
\* that ran interleaved have both completed, no update is lost: the context
\* ends with the new entries (as many of them as the limit lets in), it holds
\* at most limit entries, a remembered entry is in the memories, and the
\* persisted document holds these memories and this context.
C33_NoLostUpdate ==
    (\A t \in ThreadNames : threads[t].pc = "done")
       => LET k == IF Len(Appended) < config.context_limit
                   THEN Len(Appended) ELSE config.context_limit
          IN /\ Len(context) <= config.context_limit
             /\ Len(context) >= k
             /\ TakeLast(context, k) = TakeLast(Appended, k)
             /\ threads["loop"].call = "remember"
                => HasEntry(memories, "k1", "general")
             /\ Persisted(memory_file, memories, context)


(***************************************************************************)
(* Claims about the end of the server (SpecShutdown).                      *)
(***************************************************************************)
\* C34: on every way out of run() the approval monitor has finished and the
\* observer has been stopped when the server is no longer running, and from
\* then on no watcher event is recorded and no approval is applied: the
\* sandbox, the context, the recent changes and the memory document stay as
\* they are.
C34_NothingRunsAfterShutdown ==
    [][server'.state # "running"
          => /\ ~server'.approval_task
             /\ mon'.pc \in {"cancelled", "dead"}
             /\ ~server'.observer
             /\ server.state # "running"
                => /\ fs' = fs
                   /\ context' = context
                   /\ recent_changes' = recent_changes
                   /\ memory_file' = memory_file]_vars


(***************************************************************************)
(* Claims about the watcher and the backend's own writes (SpecFeedback).   *)
(***************************************************************************)
\* C35: once the client makes no more tool calls, and with no other actor in
\* the sandbox, the context and the memory document eventually stop
\* changing: the backend's own writes do not keep the watcher appending
\* file_change entries.
C35_WatcherQuiesces ==
    <>[][context' = context /\ memory_file' = memory_file]_vars


(***************************************************************************)
(* Claims about the GUI's decision and the pending-edit file (Spec).       *)
(***************************************************************************)
\* C36: when the GUI writes a decision (approve_edit or reject_edit), the
\* pending-edit file holds the edit the user was shown (the same filepath,
\* old_text and new_text), so the decision refers to the edit currently
\* pending and the file the GUI deletes is not a newer proposal.
C36_DecisionIsAboutThePendingEdit ==
    [][(approve_edit \/ reject_edit)
          => /\ Exists(pending_edit_file)
             /\ fs[pending_edit_file].kind = "json"
             /\ DecidedEdit(fs[pending_edit_file].doc)
                   = DecidedEdit(gui.pending_edit)]_vars


\* C37: a confirmed edit_file leaves in place a pending edit that does not
\* describe that same edit, such as one proposed for a different file.
C37_ConfirmKeepsOtherPendingEdit ==
    [][\A filepath \in UserPaths, old_text \in OldTexts, new_text \in NewTexts :
          (/\ edit_file(filepath, old_text, new_text, TRUE)
           /\ Exists(pending_edit_file)
           /\ fs[pending_edit_file].kind = "json"
           /\ DecidedEdit(fs[pending_edit_file].doc)
                 # Edit(filepath, old_text, new_text))
          => fs'[pending_edit_file] = fs[pending_edit_file]]_vars


\* A write_file or a confirmed edit_file on target
WriteOrEdit(target) ==
    \/ \E w \in WriteInputs : w[1] = target /\ write_file(w[1], w[2])
    \/ \E old_text \in OldTexts, new_text \in NewTexts :
          edit_file(target, old_text, new_text, TRUE)

\* target's path.with_suffix('.bak')
Bak(target) == with_suffix_bak(TargetOf(target))

\* C38: a write or an edit of one sandbox file never overwrites the backup of
\* a different sandbox file: distinct targets have distinct .bak paths, and
\* no target is its own backup.
C38_BackupsDoNotCollide ==
    [][\A target \in UserPaths, other \in UserPaths :
          (/\ target # other
           /\ WriteOrEdit(target)
           /\ Exists(TargetOf(other))
           /\ Exists(Bak(other)))
          => /\ Bak(target) # Bak(other)
             /\ Bak(target) # TargetOf(target)
             /\ fs'[Bak(other)] = fs[Bak(other)]]_vars


(***************************************************************************)
(* Claims about the store built on a persisted document (SpecRoundTrip).   *)
(***************************************************************************)
\* C39: the store built on the document that a previous store persisted has
\* the memories and the context the previous store had, whatever the
\* categories are called and also when the document is in the memories-only
\* format.
C39_RoundTrip ==
    [][Reconstruct => memories' = memories /\ context' = context]_vars


(***************************************************************************)
(* Claims about the HTTP wrapper (SpecWrapper).                            *)
(***************************************************************************)
\* Server n runs: its task was started and neither ended nor was cancelled.
Running(n) == RUN.servers[n].task = "running"

\* C40: a server that runs is the one RUN tracks, in RUN["server"] and in
\* RUN["server_task"], so at most one server runs and none runs untracked,
\* whatever the interleaving of start, stop and the done-callbacks; and a
\* start that is rejected because a server runs leaves RUN as it was.
C40_RunTracksTheRunningServer ==
    /\ \A n \in ServerIds :
          Running(n) => RUN.server = n /\ RUN.server_task = n
    /\ Cardinality({n \in ServerIds : Running(n)}) <= 1

=============================================================================
